---- MODULE Spec2Model ----
(***************************************************************************)
(* Model of the embedding indexing engine of obsidian-link-grabber:        *)
(* the embedding store (AIEmbeddingDatabase), the progressive indexing     *)
(* pipeline (AIIndexingEngine) and the startup consistency pass            *)
(* (AIManager.checkStateConsistency); the inference client                 *)
(* (AIWorkerService) with its worker thread, the inference service         *)
(* (AIService) with the setup sequence of the settings tab, and the merge  *)
(* of the semantic search (AISemanticSearch).                              *)
(*                                                                         *)
(* JavaScript runs one handler at a time; a handler is suspended only at   *)
(* an `await`.  Every action below is the code between two awaits of one   *)
(* async function (or a whole synchronous handler).  A save() serialises   *)
(* the envelope synchronously when it is called; the write is modelled as  *)
(* taking effect at that point, and the caller resumes in a later step.    *)
(***************************************************************************)
EXTENDS Integers, Sequences, FiniteSets, TLC

\* ------------------------------------------------------------------ bounds
NFiles == 3
MaxCalls == 1
MaxSlots == 2
MaxTimers == 1
MaxNow == 2
MaxMtime == 2
MaxCrashes == 4      \* onerror events of the worker
MaxResets == 1       \* forceReset() commands
MaxNuclear == 1      \* nuclear resets
MaxRequests == 2     \* embedding requests
MaxSetups == 1       \* runs of the settings tab's setup
TickMs == 5000       \* granularity of the clock of the inference client
MaxElapsed == 75000  \* how long the inference client is observed, in ms
RequestsCrashes == 2   \* crashes while requests are observed
RequestsElapsed == 35000 \* how long requests are observed, in ms
MaxCleanups == 1       \* cleanup() calls of the inference client
PendingCrashes == 1    \* crashes while the pending map is observed
ServiceCrashes == 1    \* crashes while the service is observed
ServiceElapsed == 10000  \* how long the service is observed, in ms
\* the document paths and the score ranks of the searched store
NPaths == 2
MaxScore == 1
\* the vectors cosineSimilarity is tried on, and the bits of a significand
VecLen == 2
MaxComp == 3
FloatBits == 8
\* the most documents the chunk loop is run on by its counters alone
MaxLoopFiles == 30
\* the auto-update timers set, the step of the clock while they run, and how
\* long the vault events are observed, in ms
MaxAuto == 3
AutoTickMs == 2500
AutoElapsed == 10000
StartTime == 100000  \* Date.now() when the session starts

\* ------------------------------------------------- program constants
TitlesChunkSize == 25
TitlesSaveEvery == 25
HeadingsChunkSize == 5
HeadingsSaveEvery == 15
ContentChunkSize == 2
ContentSaveEvery == 5
StaleAfterMs == 30000
MAX_RESTART_ATTEMPTS == 3
MIN_RESTART_INTERVAL == 5000
RestartWindowMs == 60000
BackoffBaseMs == 2000
BackoffCapMs == 10000
EmbeddingTimeoutMs == 10000
BatchTimeoutMs == 30000

\* the time, in ms, at which load() is tried
LoadTime == 100000

Types == <<"titles", "headings", "content">>
TypeSet == {"titles", "headings", "content"}
Paths == 1..NFiles
Slots == 1..MaxSlots

VARIABLES
    idxState,        \* db.indexingStates: type -> IndexingState
    recs,            \* db.titles / db.headings / db.content: type -> path -> lastModified (0: no record)
    disk,            \* the persisted envelope (embeddings.json)
    cancelIndexing,  \* AIIndexingEngine.cancelIndexing
    cleanupTimers,   \* pending setTimeout(.., 100) callbacks of cancelBackgroundIndexing
    passes,          \* the indexSpecificType calls: slot -> position of the call
    calls,           \* indexSpecificType calls made so far by callers other than the startup pass
    vault,           \* the documents: path -> [mtime, headings, bad]
    enabled,         \* settings.aiIndexTitles / aiIndexHeadings / aiIndexContent
    su,              \* position of checkStateConsistency
    now,             \* Date.now()
    boot,            \* the store: "constructed", "loaded" (load() has run), "resetting" (reset() awaits its save), "reset"
    seen,            \* per path, the last indexNote call on it: its mtime and whether every step succeeded
    note,            \* the last indexNote call: what it requested and changed
    client,          \* AIWorkerService: worker (0: null), isReady, pendingRequests, restartAttempts, lastRestartTime
    unit,            \* the worker thread behind client.worker: its phase and the requests it has to answer
    timers,          \* pending setTimeout callbacks of handleWorkerError: the restarts
    requests,        \* embedding requests: id -> kind, time sent, promise state, timeout timer armed
    inits,           \* AIWorkerService.initialize() calls in progress: caller -> position
    hist,            \* what has happened to the client so far (crashes, restarts scheduled, ...)
    service,         \* AIService: status, message, settings.aiState, model files on disk
    setup,           \* the setup sequences: the settings tab's and the startup auto-load
    search,          \* AISemanticSearch: store scores, options and the result of the last search
    cosine,          \* AISemanticSearch.cosineSimilarity: two vectors and the value computed for them
    autoUpdateTimeout, \* AIManager.autoUpdateTimeout: path -> timer handle (0: no entry)
    autoTimers,      \* the setTimeout(.., 5000) timers of scheduleAutoUpdate, by handle
    removals,        \* the 'delete' handlers: path -> position of handleFileDelete
    loop             \* the chunk loop of one pass, by its counters alone

engineVars == <<idxState, recs, disk, cancelIndexing, cleanupTimers, passes, calls, vault, enabled, su, now>>
noteVars == <<boot, seen, note>>
aiVars == <<client, unit, timers, requests, inits, hist, service, setup>>
searchVars == <<search, cosine>>
eventVars == <<autoUpdateTimeout, autoTimers, removals>>
vars == <<idxState, recs, disk, cancelIndexing, cleanupTimers, passes, calls, vault, enabled, su, now,
          boot, seen, note, client, unit, timers, requests, inits, hist, service, setup, search, cosine,
          autoUpdateTimeout, autoTimers, removals, loop>>

\* ------------------------------------------------------------ the store
createEmptyState ==
    [isIndexing |-> FALSE, progress |-> 0, total |-> 0, lastIndexed |-> 0, lastHeartbeat |-> 0]

EmptyStates == [t \in TypeSet |-> createEmptyState]
EmptyRecs == [t \in TypeSet |-> [p \in Paths |-> 0]]

createEmptyDatabase ==
    [exists |-> TRUE, version |-> "2.0.0", states |-> EmptyStates, recs |-> EmptyRecs]

\* Object.assign(this.db.indexingStates[type], state)
setIndexingState(st, t, upd) ==
    [st EXCEPT ![t] = [f \in DOMAIN @ |-> IF f \in DOMAIN upd THEN upd[f] ELSE @[f]]]

\* save(): the envelope as serialised by JSON.stringify(this.db)
save(st, rc) ==
    [exists |-> TRUE, version |-> "2.0.0", states |-> st, recs |-> rc]

isAnyIndexingIn(st) ==
    st["titles"].isIndexing \/ st["headings"].isIndexing \/ st["content"].isIndexing

isAnyIndexing == isAnyIndexingIn(idxState)

\* a cleanup that forgets the content collection
setAllIndexingFalse_twoOnly(st) ==
    setIndexingState(
        setIndexingState(st, "titles", [isIndexing |-> FALSE]),
        "headings", [isIndexing |-> FALSE])

setAllIndexingFalse(st) ==
    setIndexingState(
        setIndexingState(
            setIndexingState(st, "titles", [isIndexing |-> FALSE]),
            "headings", [isIndexing |-> FALSE]),
        "content", [isIndexing |-> FALSE])

chunkSize(t) ==
    CASE t = "titles" -> TitlesChunkSize
      [] t = "headings" -> HeadingsChunkSize
      [] t = "content" -> ContentChunkSize

saveEvery(t) ==
    CASE t = "titles" -> TitlesSaveEvery
      [] t = "headings" -> HeadingsSaveEvery
      [] t = "content" -> ContentSaveEvery

Min(a, b) == IF a < b THEN a ELSE b

\* vault.getMarkdownFiles()
getMarkdownFiles == [k \in 1..NFiles |-> k]

\* ------------------------------------------------------------ the passes
NoPass ==
    [pc |-> "new", type |-> "titles", files |-> <<>>, i |-> 0, j |-> 0, indexed |-> 0,
     cb |-> FALSE, cancelled |-> FALSE, err |-> FALSE, swept |-> FALSE, failed |-> {}]

InFlight(p) == p.pc \in {"started", "delay", "doc", "embed", "chunkSaved", "completing"}
Iterating(p) == p.pc \in {"started", "delay", "doc", "embed", "chunkSaved"}
Ended(p) == p.pc \in {"rejected", "done", "thrown"}

\* files.slice(i, Math.min(i + chunkSize, files.length)).length
chunkLen(p) == Min(p.i + chunkSize(p.type), Len(p.files)) - p.i

\* the file the chunk loop is at
curFile(p) == p.files[p.i + p.j + 1]

\* ------------------------------------------- the per-document sub-routines
\* existing && existing.lastModified === file.stat.mtime
\* a skip test that never finds the record current
upToDate_never(rc, t, f) == FALSE

upToDate(rc, t, f) == rc[t][f] # 0 /\ rc[t][f] = vault[f].mtime

\* indexTitle / indexHeadings / indexContent up to the embedding request:
\* wait = an embedding was requested, fail = the step threw (content: cachedRead)
indexBegin(rc, t, f, readThrows) ==
    IF upToDate(rc, t, f)
    THEN [rc |-> rc, wait |-> FALSE, fail |-> FALSE]
    ELSE IF t = "headings" /\ ~vault[f].headings
    THEN [rc |-> [rc EXCEPT ![t][f] = 0], wait |-> FALSE, fail |-> FALSE]
    ELSE IF t = "content" /\ readThrows
    THEN [rc |-> rc, wait |-> FALSE, fail |-> TRUE]
    ELSE [rc |-> rc, wait |-> TRUE, fail |-> FALSE]

\* an answer that is never stored
indexFinish_noUpsert(rc, t, f, ok) == rc

\* ... and from the embedding's answer on: upsert, or give up on none
indexFinish(rc, t, f, ok) ==
    IF ok THEN [rc EXCEPT ![t][f] = vault[f].mtime] ELSE rc

\* ------------------------------------------- indexSpecificType, by await
\* A world is what one resumption of a pass reads and writes.
World(st, rc, dk, p) == [st |-> st, rc |-> rc, dk |-> dk, p |-> p]

\* lines 201-206: isIndexing false, lastIndexed now, save (awaited)
completeStart(w) ==
    LET st2 == setIndexingState(w.st, w.p.type, [isIndexing |-> FALSE, lastIndexed |-> now])
    IN  [w EXCEPT !.st = st2, !.dk = save(st2, w.rc), !.p.pc = "completing"]

\* lines 207-216: notifications, then progress and total zeroed in memory
completeEnd(w) ==
    [w EXCEPT !.st = setIndexingState(@, w.p.type, [progress |-> 0, total |-> 0]),
              !.p.pc = "done"]

\* a catch block that re-raises without releasing the lock
catchBlock_keepLock(w) ==
    [w EXCEPT !.st = setIndexingState(@, w.p.type, [progress |-> 0, total |-> 0]),
              !.p.pc = "thrown", !.p.err = TRUE]

\* lines 218-228: the catch block, which re-raises
catchBlock(w) ==
    [w EXCEPT !.st = setIndexingState(@, w.p.type,
                        [isIndexing |-> FALSE, progress |-> 0, total |-> 0]),
              !.p.pc = "thrown", !.p.err = TRUE]

\* top of the chunk loop (lines 238-244): loop test, cancellation poll, delay
loopTop(w) ==
    IF w.p.i >= Len(w.p.files) THEN completeStart(w)
    ELSE IF cancelIndexing THEN completeStart([w EXCEPT !.p.cancelled = TRUE])
    ELSE [w EXCEPT !.p.pc = "delay"]

\* end of a chunk (lines 256-271): progress, heartbeat, onProgress, periodic save
chunkEnd(w, throws) ==
    LET ind == w.p.indexed + chunkLen(w.p)
        st2 == setIndexingState(w.st, w.p.type, [progress |-> ind, lastHeartbeat |-> now])
        w2  == [w EXCEPT !.st = st2, !.p.indexed = ind,
                         !.p.i = @ + chunkSize(w.p.type), !.p.j = 0]
    IN  IF throws /\ w.p.cb THEN catchBlock(w2)
        ELSE IF ind % saveEvery(w.p.type) = 0
        THEN [w2 EXCEPT !.dk = save(st2, w.rc), !.p.pc = "chunkSaved"]
        ELSE loopTop(w2)

\* a document of the chunk is finished (lines 248-254): next document or chunk end
afterDoc(w, throws) ==
    IF w.p.j + 1 < chunkLen(w.p)
    THEN [w EXCEPT !.p.j = @ + 1, !.p.pc = "doc"]
    ELSE chunkEnd(w, throws)

\* a failing document that propagates out of the chunk loop
docFailed_abort(w, throws) == catchBlock(w)

\* a document's step failed (embedding none, or an exception): the sub-routine's
\* try/catch (lines 79-81) and the loop's (lines 249-253) log it and go on
docFailed(w, throws) == afterDoc(w, throws)

Apply(c, w) ==
    /\ idxState' = w.st
    /\ recs' = w.rc
    /\ disk' = w.dk
    /\ passes' = [passes EXCEPT ![c] = w.p]

Here(c) == World(idxState, recs, disk, passes[c])

\* a lock per collection: only the collection's own flag is tested
startCall_ownFlagOnly(st, rc, dk, cn, t, cb) ==
    IF st[t].isIndexing
    THEN [st |-> st, dk |-> dk, cn |-> cn,
          p |-> [NoPass EXCEPT !.pc = "rejected", !.type = t]]
    ELSE LET files == getMarkdownFiles
             st2 == setIndexingState(st, t,
                       [isIndexing |-> TRUE, progress |-> 0,
                        total |-> Len(files), lastHeartbeat |-> now])
         IN  [st |-> st2, dk |-> save(st2, rc), cn |-> FALSE,
              p |-> [NoPass EXCEPT !.pc = "started", !.type = t, !.files = files,
                                   !.cb = cb]]

\* the cancellation flag reset before the lock check instead of after it
startCall_resetFirst(st, rc, dk, cn, t, cb) ==
    IF isAnyIndexingIn(st)
    THEN [st |-> st, dk |-> dk, cn |-> FALSE,
          p |-> [NoPass EXCEPT !.pc = "rejected", !.type = t]]
    ELSE LET files == getMarkdownFiles
             st2 == setIndexingState(st, t,
                       [isIndexing |-> TRUE, progress |-> 0,
                        total |-> Len(files), lastHeartbeat |-> now])
         IN  [st |-> st2, dk |-> save(st2, rc), cn |-> FALSE,
              p |-> [NoPass EXCEPT !.pc = "started", !.type = t, !.files = files,
                                   !.cb = cb]]

\* indexSpecificType(type) up to its first await (lines 153-174), called in a
\* store whose indexing states are st: the lock check, then the lock and its save
startCall(st, rc, dk, cn, t, cb) ==
    IF isAnyIndexingIn(st)
    THEN [st |-> st, dk |-> dk, cn |-> cn,
          p |-> [NoPass EXCEPT !.pc = "rejected", !.type = t]]
    ELSE LET files == getMarkdownFiles
             st2 == setIndexingState(st, t,
                       [isIndexing |-> TRUE, progress |-> 0,
                        total |-> Len(files), lastHeartbeat |-> now])
         IN  [st |-> st2, dk |-> save(st2, rc), cn |-> FALSE,
              p |-> [NoPass EXCEPT !.pc = "started", !.type = t, !.files = files,
                                   !.cb = cb]]

IndexSpecificType(c, st, t, cb) ==
    LET r == startCall(st, recs, disk, cancelIndexing, t, cb)
    IN  /\ passes[c].pc = "new"
        /\ idxState' = r.st
        /\ disk' = r.dk
        /\ cancelIndexing' = r.cn
        /\ passes' = [passes EXCEPT ![c] = r.p]
        /\ UNCHANGED recs

\* No call has an outcome its caller has yet to take.  A caller awaiting
\* indexSpecificType resumes as soon as the call settles, before any timer or
\* other handler runs.
Quiet == \A c \in Slots : ~Ended(passes[c])

FreeSlot(c) == passes[c].pc = "new" /\ \A d \in Slots : d < c => passes[d].pc # "new"

\* a caller other than the startup pass (settings panel, index-all command)
UserCall(t) ==
    \E c \in Slots :
        /\ Quiet
        /\ FreeSlot(c)
        /\ calls < MaxCalls
        /\ calls' = calls + 1
        /\ IndexSpecificType(c, idxState, t, TRUE)
        /\ UNCHANGED <<cleanupTimers, vault, enabled, su, now>>

\* the awaited save of line 174 or 268 is done: back to the top of the loop
AfterSave(c) ==
    /\ Quiet
    /\ passes[c].pc \in {"started", "chunkSaved"}
    /\ Apply(c, loopTop(Here(c)))
    /\ UNCHANGED <<cancelIndexing, cleanupTimers, calls, vault, enabled, su, now>>

\* the inter-chunk delay of line 244 is over: the timer has run, so the clock
\* has advanced (it stops at MaxNow)
AfterDelay(c) ==
    /\ Quiet
    /\ passes[c].pc = "delay"
    /\ passes' = [passes EXCEPT ![c].pc = "doc"]
    /\ now' = Min(now + 1, MaxNow)
    /\ UNCHANGED <<idxState, recs, disk, cancelIndexing, cleanupTimers, calls, vault, enabled, su>>

\* the loop calls the sub-routine for the next document of the chunk
DocStart(c) ==
    /\ Quiet
    /\ passes[c].pc = "doc"
    /\ \E readThrows \in {FALSE, vault[curFile(passes[c])].bad}, throws \in BOOLEAN :
          LET p == passes[c]
              f == curFile(p)
              b == indexBegin(recs, p.type, f, readThrows)
              w == World(idxState, b.rc, disk,
                         [p EXCEPT !.failed = IF b.fail THEN @ \cup {f} ELSE @])
          IN  IF b.wait
              THEN Apply(c, [w EXCEPT !.p.pc = "embed"])
              ELSE IF b.fail
              THEN Apply(c, docFailed(w, throws))
              ELSE Apply(c, afterDoc(w, throws))
    /\ UNCHANGED <<cancelIndexing, cleanupTimers, calls, vault, enabled, su, now>>

\* the Inference Service answers: a vector (ok) or none
EmbedDone(c) ==
    /\ Quiet
    /\ passes[c].pc = "embed"
    /\ \E ok \in {TRUE, ~vault[curFile(passes[c])].bad}, throws \in BOOLEAN :
          LET p == passes[c]
              f == curFile(p)
              w == World(idxState, indexFinish(recs, p.type, f, ok), disk,
                         [p EXCEPT !.failed = IF ok THEN @ ELSE @ \cup {f}])
          IN  IF ok THEN Apply(c, afterDoc(w, throws)) ELSE Apply(c, docFailed(w, throws))
    /\ UNCHANGED <<cancelIndexing, cleanupTimers, calls, vault, enabled, su, now>>

\* the awaited save of line 206 is done
CompleteDone(c) ==
    /\ Quiet
    /\ passes[c].pc = "completing"
    /\ Apply(c, completeEnd(Here(c)))
    /\ UNCHANGED <<cancelIndexing, cleanupTimers, calls, vault, enabled, su, now>>

\* the caller has taken the call's outcome; the slot is free again
Return(c) ==
    /\ Ended(passes[c])
    /\ ~(su.pc = "wait" /\ su.call = c)
    /\ passes' = [passes EXCEPT ![c] = NoPass]
    /\ UNCHANGED <<idxState, recs, disk, cancelIndexing, cleanupTimers, calls, vault, enabled, su, now>>

\* cancelBackgroundIndexing() (lines 410-421)
Cancel ==
    /\ Quiet
    /\ isAnyIndexing
    /\ cleanupTimers < MaxTimers
    /\ cancelIndexing' = TRUE
    /\ cleanupTimers' = cleanupTimers + 1
    /\ UNCHANGED <<idxState, recs, disk, passes, calls, vault, enabled, su, now>>

\* the deferred cleanup of cancelBackgroundIndexing (lines 415-419)
Cleanup ==
    /\ Quiet
    /\ cleanupTimers > 0
    /\ cleanupTimers' = cleanupTimers - 1
    /\ idxState' = setAllIndexingFalse(idxState)
    /\ disk' = save(setAllIndexingFalse(idxState), recs)
    /\ passes' = [c \in Slots |->
                    IF InFlight(passes[c]) THEN [passes[c] EXCEPT !.swept = TRUE] ELSE passes[c]]
    /\ UNCHANGED <<recs, cancelIndexing, calls, vault, enabled, su, now>>

\* ------------------------------------- the startup consistency pass
\* getStats(): titlesIndexed / headingsIndexed / contentIndexed
countOf(rc, t) == Cardinality({p \in Paths : rc[t][p] # 0})

\* a total that adds up the three counts
totalNotes_sum(rc) ==
    Cardinality({p \in Paths : rc["titles"][p] # 0})
    + Cardinality({p \in Paths : rc["headings"][p] # 0})
    + Cardinality({p \in Paths : rc["content"][p] # 0})

\* getStats().totalNotes: the union of the three key sets
totalNotes(rc) == Cardinality({p \in Paths : \E t \in TypeSet : rc[t][p] # 0})

\* getStats(): the first collection, in the order titles, headings, content,
\* whose isIndexing flag is set (lines 209-221); "none": null
activeType(st) ==
    IF st["titles"].isIndexing THEN "titles"
    ELSE IF st["headings"].isIndexing THEN "headings"
    ELSE IF st["content"].isIndexing THEN "content"
    ELSE "none"

\* getStats() (lines 196-233), without the serialized size and the update time
getStats(st, rc) ==
    LET active == activeType(st)
    IN  [titlesIndexed |-> countOf(rc, "titles"),
         headingsIndexed |-> countOf(rc, "headings"),
         contentIndexed |-> countOf(rc, "content"),
         totalNotes |-> totalNotes(rc),
         isIndexing |-> active # "none",
         currentIndexingType |-> active,
         currentIndexingProgress |-> IF active = "none" THEN 0 ELSE st[active].progress,
         totalIndexingItems |-> IF active = "none" THEN 0 ELSE st[active].total]

NoSu == [pc |-> "init", k |-> 1, lock |-> {}, count |-> [t \in TypeSet |-> 0], call |-> 1]

\* the loop body's test for a collection (AIManager.ts lines 194-221)
suNeeds(s, k) ==
    LET t == Types[k]
    IN  /\ enabled[t]
        /\ \/ t \in s.lock
           \/ s.count[t] = 0
           \/ (s.count[t] > 0 /\ s.count[t] < Len(getMarkdownFiles))

\* the next collection, from k on, for which the loop calls indexSpecificType
suNext(s, k) ==
    IF \E m \in k..3 : suNeeds(s, m)
    THEN CHOOSE m \in k..3 : suNeeds(s, m) /\ \A n \in k..(m - 1) : ~suNeeds(s, n)
    ELSE 4

\* the loop from collection k on, up to its next await
suLoop(s, k) ==
    LET m == suNext(s, k)
    IN  IF m = 4
        THEN \* line 227: saveDatabase()
             /\ su' = [s EXCEPT !.pc = "done", !.k = 4]
             /\ disk' = save(idxState, recs)
             /\ UNCHANGED <<idxState, recs, cancelIndexing, passes>>
        ELSE \E c \in Slots :
               LET t == Types[m]
                   released == IF t \in s.lock
                               THEN setIndexingState(idxState, t, [isIndexing |-> FALSE])
                               ELSE idxState
               IN  /\ FreeSlot(c)
                   /\ IndexSpecificType(c, released, t, FALSE)
                   /\ su' = [s EXCEPT !.pc = "wait", !.k = m, !.call = c]

\* checkStateConsistency() up to its first await (lines 166-216)
SuStart ==
    /\ Quiet
    /\ su.pc = "init"
    /\ LET s == [su EXCEPT !.lock = {t \in TypeSet : idxState[t].isIndexing},
                           !.count = [t \in TypeSet |-> countOf(recs, t)]]
       IN  IF s.lock = {} /\ totalNotes(recs) = 0
           THEN /\ su' = [s EXCEPT !.pc = "done"]
                /\ UNCHANGED <<idxState, recs, disk, cancelIndexing, passes>>
           ELSE suLoop(s, 1)
    /\ UNCHANGED <<cleanupTimers, calls, vault, enabled, now>>

\* the awaited indexSpecificType has returned (or thrown): on with the loop
SuResume ==
    /\ su.pc = "wait"
    /\ Ended(passes[su.call])
    /\ IF passes[su.call].pc = "thrown"
       THEN /\ su' = [su EXCEPT !.pc = "failed"]
            /\ passes' = [passes EXCEPT ![su.call] = NoPass]
            /\ UNCHANGED <<idxState, recs, disk, cancelIndexing>>
       ELSE \/ /\ suNext(su, su.k + 1) = 4
               /\ su' = [su EXCEPT !.pc = "done", !.k = 4]
               /\ disk' = save(idxState, recs)
               /\ passes' = [passes EXCEPT ![su.call] = NoPass]
               /\ UNCHANGED <<idxState, recs, cancelIndexing>>
            \/ /\ suNext(su, su.k + 1) # 4
               /\ LET m == suNext(su, su.k + 1)
                      t == Types[m]
                      released == IF t \in su.lock
                                  THEN setIndexingState(idxState, t, [isIndexing |-> FALSE])
                                  ELSE idxState
                      r == startCall(released, recs, disk, cancelIndexing, t, FALSE)
                  IN  /\ idxState' = r.st
                      /\ disk' = r.dk
                      /\ cancelIndexing' = r.cn
                      /\ passes' = [passes EXCEPT ![su.call] = r.p]
                      /\ su' = [su EXCEPT !.k = m]
                      /\ UNCHANGED recs
    /\ UNCHANGED <<cleanupTimers, calls, vault, enabled, now>>

\* --------------------------------------------------- load() and reset()
\* reset(): a fresh envelope in memory, saved
reset == [st |-> EmptyStates, rc |-> EmptyRecs, dk |-> createEmptyDatabase]

\* a stale test that already fires at exactly 30 s
isStale_atThreshold(hb, t0) == hb > 0 /\ (t0 - hb >= StaleAfterMs)

\* the stale test of load() (lines 98-99) for a heartbeat hb read at time t0
isStale(hb, t0) == hb > 0 /\ (t0 - hb > StaleAfterMs)

\* load() of the envelope dk at time t0 (lines 81-120): the memory and disk it leaves
load(dk, t0) ==
    IF dk.exists
    THEN IF dk.version = "2.0.0"
         THEN LET hbOf(t) == IF "lastHeartbeat" \in DOMAIN dk.states[t]
                             THEN dk.states[t].lastHeartbeat ELSE 0
                  fix(t) == [f \in DOMAIN createEmptyState |->
                               IF f = "lastHeartbeat" THEN hbOf(t)
                               ELSE IF f = "isIndexing"
                               THEN dk.states[t].isIndexing /\ ~isStale(hbOf(t), t0)
                               ELSE dk.states[t][f]]
              IN  [st |-> [t \in TypeSet |-> fix(t)], rc |-> dk.recs, dk |-> dk]
         ELSE reset
    ELSE reset

\* ------------------------------------------------------------ indexNote
NoSeen == [p \in Paths |-> [mtime |-> 0, clean |-> FALSE]]
\* update: "none" (indexNote was called directly), or what updateNoteIfNeeded
\* did: "indexed" (it called indexNote) or "skipped"
\* embedFail: an embedding came back empty; readFail: cachedRead threw
NoNote == [path |-> 0, reqs |-> 0, same |-> TRUE, again |-> FALSE, cleanPrev |-> FALSE,
           update |-> "none", embedFail |-> FALSE, readFail |-> FALSE]

\* one sub-routine run to its end; o = [ok, readThrows] is what the Inference
\* Service and the vault answer
indexOne(r, t, f, o) ==
    IF ~enabled[t] THEN r
    ELSE LET b == indexBegin(r.rc, t, f, o.readThrows)
         IN  [rc |-> IF b.wait THEN indexFinish(b.rc, t, f, o.ok) ELSE b.rc,
              reqs |-> r.reqs + (IF b.wait THEN 1 ELSE 0),
              fail |-> r.fail \/ b.fail \/ (b.wait /\ ~o.ok),
              embedFail |-> r.embedFail \/ (b.wait /\ ~o.ok),
              readFail |-> r.readFail \/ b.fail]

\* indexNote(file): titles, headings, content in this order (lines 38-52)
indexNote(rc, f, o) ==
    indexOne(indexOne(indexOne([rc |-> rc, reqs |-> 0, fail |-> FALSE,
                                embedFail |-> FALSE, readFail |-> FALSE],
                               "titles", f, o["titles"]),
                      "headings", f, o["headings"]),
             "content", f, o["content"])

\* only indexContent reads the file (cachedRead), so only it can throw there
Outcomes(t) == {o \in [ok : BOOLEAN, readThrows : BOOLEAN] : o.readThrows => (t = "content" /\ o.ok)}

\* indexNote(file, save = true), run to its end; update says who called it
runIndexNote(f, update) ==
    \E ot \in Outcomes("titles"), oh \in Outcomes("headings"), oc \in Outcomes("content") :
        LET o == [t \in TypeSet |-> IF t = "titles" THEN ot ELSE IF t = "headings" THEN oh ELSE oc]
            r == indexNote(recs, f, o)
        IN  /\ recs' = r.rc
            /\ disk' = save(idxState, r.rc)
            /\ note' = [path |-> f, reqs |-> r.reqs, same |-> (r.rc = recs),
                        again |-> (seen[f].mtime = vault[f].mtime),
                        cleanPrev |-> seen[f].clean,
                        update |-> update, embedFail |-> r.embedFail,
                        readFail |-> r.readFail]
            /\ seen' = [seen EXCEPT ![f] = [mtime |-> vault[f].mtime, clean |-> ~r.fail]]
            /\ UNCHANGED <<idxState, cancelIndexing, cleanupTimers, passes, calls, vault,
                           enabled, su, now, boot>>

IndexNote(f) == runIndexNote(f, "none")

\* needsUpdate of updateNoteIfNeeded (lines 399-403): a record of the path, in
\* any of the three collections, has another lastModified than the file, or
\* none of the three collections has a record of the path
needsUpdate(rc, f) ==
    \/ \E t \in TypeSet : rc[t][f] # 0 /\ rc[t][f] # vault[f].mtime
    \/ \A t \in TypeSet : rc[t][f] = 0

\* updateNoteIfNeeded(file), run to its end
UpdateNoteIfNeeded(f) ==
    IF needsUpdate(recs, f)
    THEN runIndexNote(f, "indexed")
    ELSE /\ note' = [path |-> f, reqs |-> 0, same |-> TRUE, again |-> FALSE,
                     cleanPrev |-> FALSE, update |-> "skipped", embedFail |-> FALSE,
                     readFail |-> FALSE]
         /\ UNCHANGED <<idxState, recs, disk, cancelIndexing, cleanupTimers, passes, calls,
                        vault, enabled, su, now, boot, seen>>

\* the document is edited: its last-modified time moves on
Modify(f) ==
    /\ vault[f].mtime < MaxMtime
    /\ vault' = [vault EXCEPT ![f].mtime = @ + 1]
    /\ UNCHANGED <<idxState, recs, disk, cancelIndexing, cleanupTimers, passes, calls,
                   enabled, su, now, boot, seen, note>>

\* Load: AIEmbeddingStore.loadDatabase() at LoadTime
Load ==
    /\ boot = "constructed"
    /\ LET r == load(disk, now)
       IN  /\ idxState' = r.st
           /\ recs' = r.rc
           /\ disk' = r.dk
    /\ boot' = "loaded"
    /\ UNCHANGED <<cancelIndexing, cleanupTimers, passes, calls, vault, enabled, su, now,
                   seen, note>>

\* the reset-database command (AIManager.ts lines 375-392) calls reset()
\* (lines 134-138): a fresh envelope in memory, serialised and handed to the
\* adapter at once; reset() then awaits the write
ResetCall ==
    /\ Quiet
    /\ boot = "loaded"
    /\ idxState' = reset.st
    /\ recs' = reset.rc
    /\ disk' = reset.dk
    /\ boot' = "resetting"
    /\ UNCHANGED <<cancelIndexing, cleanupTimers, passes, calls, vault, enabled, su, now,
                   seen, note>>

\* the awaited save of reset() is done: reset() returns
ResetReturn ==
    /\ Quiet
    /\ boot = "resetting"
    /\ boot' = "reset"
    /\ UNCHANGED <<idxState, recs, disk, cancelIndexing, cleanupTimers, passes, calls, vault,
                   enabled, su, now, seen, note>>

\* =====================================================================
\* The inference client (AIWorkerService), its worker thread, and the
\* inference service (AIService)
\* =====================================================================
Callers == {"auto", "tab", "reset", "restart"}
RequestIds == 1..MaxRequests
SetupSteps == <<"check", "download", "init", "load", "mark">>

\* AIWorkerService as constructed (lines 245-254)
NoClient ==
    [worker |-> 0, isReady |-> FALSE, pendingRequests |-> {},
     restartAttempts |-> 0, lastRestartTime |-> 0]

\* no worker thread
NoUnit == [phase |-> "none", inbox |-> {}]

NoRequest == [kind |-> "single", sentAt |-> 0, state |-> "new", timer |-> FALSE]

NoHist ==
    [crashes |-> 0, resets |-> 0, nuclear |-> 0, setups |-> 0, spawns |-> 0,
     fires |-> 0, timeouts |-> 0, late |-> 0,
     crashTimes |-> <<>>, attempts |-> <<>>, run |-> <<>>, stoppedAtReset |-> FALSE,
     cleanups |-> 0]

\* AIWorkerService.isWorkerReady() (lines 568-570)
isWorkerReady(cl) == cl.isReady /\ cl.worker # 0

\* AIService.isReady() (lines 399-409): workerReady is computed and logged,
\* the value returned is the status test alone
AIService_isReady(svc, cl) == svc.status = "ready"

\* AIService.setState(state, message) (lines 57-75); by: the caller
setState(svc, state, message, by) ==
    [svc EXCEPT !.status = state, !.message = message, !.aiState = state, !.by = by]

\* Math.min(2000 * Math.pow(2, restartAttempts), 10000) (line 479)
backoffDelay(n) == Min(BackoffBaseMs * (2 ^ n), BackoffCapMs)

\* a crash handler without the test of the attempt counter
handleWorkerError_unbounded(cl, t) ==
    LET since == t - cl.lastRestartTime
        att == IF since > RestartWindowMs THEN 0 ELSE cl.restartAttempts
        base == [cl EXCEPT !.pendingRequests = {}, !.isReady = FALSE, !.restartAttempts = att]
    IN  IF since < MIN_RESTART_INTERVAL
        THEN [cl |-> base, due |-> -1]
        ELSE [cl |-> [base EXCEPT !.restartAttempts = att + 1, !.lastRestartTime = t],
              due |-> t + backoffDelay(att)]

\* a crash handler that forgets the attempts after 6 s instead of 60 s
handleWorkerError_shortWindow(cl, t) ==
    LET since == t - cl.lastRestartTime
        att == IF since > 6000 THEN 0 ELSE cl.restartAttempts
        base == [cl EXCEPT !.pendingRequests = {}, !.isReady = FALSE, !.restartAttempts = att]
    IN  IF att >= MAX_RESTART_ATTEMPTS
        THEN [cl |-> base, due |-> -1]
        ELSE IF since < MIN_RESTART_INTERVAL
        THEN [cl |-> base, due |-> -1]
        ELSE [cl |-> [base EXCEPT !.restartAttempts = att + 1, !.lastRestartTime = t],
              due |-> t + backoffDelay(att)]

\* a crash handler that keeps the pending map
handleWorkerError_keepPending(cl, t) ==
    LET since == t - cl.lastRestartTime
        att == IF since > RestartWindowMs THEN 0 ELSE cl.restartAttempts
        base == [cl EXCEPT !.isReady = FALSE, !.restartAttempts = att]
    IN  IF att >= MAX_RESTART_ATTEMPTS
        THEN [cl |-> base, due |-> -1]
        ELSE IF since < MIN_RESTART_INTERVAL
        THEN [cl |-> base, due |-> -1]
        ELSE [cl |-> [base EXCEPT !.restartAttempts = att + 1, !.lastRestartTime = t],
              due |-> t + backoffDelay(att)]

\* handleWorkerError at time t (lines 440-498): the client it leaves and the
\* time at which the restart it schedules is due (-1: none scheduled)
handleWorkerError(cl, t) ==
    LET since == t - cl.lastRestartTime
        att == IF since > RestartWindowMs THEN 0 ELSE cl.restartAttempts
        base == [cl EXCEPT !.pendingRequests = {}, !.isReady = FALSE, !.restartAttempts = att]
    IN  IF att >= MAX_RESTART_ATTEMPTS
        THEN [cl |-> base, due |-> -1]
        ELSE IF since < MIN_RESTART_INTERVAL
        THEN [cl |-> base, due |-> -1]
        ELSE [cl |-> [base EXCEPT !.restartAttempts = att + 1, !.lastRestartTime = t],
              due |-> t + backoffDelay(att)]

\* a timeout of 10 s for batches too
timeoutOf_single(kind) == EmbeddingTimeoutMs

\* the timeout of a request (lines 526-531, 556-561)
timeoutOf(kind) == IF kind = "batch" THEN BatchTimeoutMs ELSE EmbeddingTimeoutMs

dueOf(r) == r.sentAt + timeoutOf(r.kind)

\* some timer callback is due: the event loop runs it before time moves on
TimerDue ==
    \/ \E tm \in timers : tm.due <= now
    \/ \E id \in RequestIds : requests[id].timer /\ dueOf(requests[id]) <= now

\* the state the handlers of the client and the service work on
AI == [client |-> client, unit |-> unit, inits |-> inits, service |-> service,
       setup |-> setup, hist |-> hist]

SetAI(w) ==
    /\ client' = w.client
    /\ unit' = w.unit
    /\ inits' = w.inits
    /\ service' = w.service
    /\ setup' = w.setup
    /\ hist' = w.hist

\* an initializeXenova() that reports a failed initialize() as "not-configured"
initializeXenova_notConfigured(w, ret) ==
    IF ret
    THEN [w |-> w, ok |-> TRUE]
    ELSE [w |-> [w EXCEPT !.service = setState(@, "not-configured", "Init failed", "initializeXenova")],
          ok |-> FALSE]

\* initializeXenova() once initialize() has returned ret (lines 85-98)
initializeXenova(w, ret) ==
    IF ret
    THEN [w |-> w, ok |-> TRUE]
    ELSE [w |-> [w EXCEPT !.service = setState(@, "error", "Init failed", "initializeXenova")],
          ok |-> FALSE]

\* loadModel() (lines 104-123)
loadModel(w) ==
    IF isWorkerReady(w.client)
    THEN [w |-> [w EXCEPT !.service = setState(@, "ready", "AI Model loaded in Worker", "loadModel")],
          ok |-> TRUE]
    ELSE [w |-> [w EXCEPT !.service = setState(@, "error", "Load failed", "loadModel")],
          ok |-> FALSE]

\* the steps of startAISetup after step s
LaterSteps(s) ==
    {SetupSteps[k] : k \in {k \in 1..Len(SetupSteps) :
                              \E m \in 1..Len(SetupSteps) : SetupSteps[m] = s /\ m < k}}

\* a setup that goes on after a failed step
setupFailed_goOn(w, s) ==
    [w EXCEPT !.setup.tab.failed = @ \cup {s}]

\* the catch block of startAISetup (lines 678-693): step s has failed
setupFailed(w, s) ==
    [w EXCEPT !.service = setState(@, "error", "Setup failed", "startAISetup.catch"),
              !.setup.tab.pc = "failed",
              !.setup.tab.failed = @ \cup {s}]

\* what the caller of initialize() does with its result ret:
\*   restart: the timer callback of handleWorkerError (lines 487-493)
\*   reset:   forceReset's caller, which only shows a notice
\*   auto:    AIManager.initialize, step 3 (lines 104-112)
\*   tab:     startAISetup (lines 652-657)
afterInitialize(caller, ret, w) ==
    CASE caller = "restart" ->
           IF w.client.isReady
           THEN [w EXCEPT !.client.restartAttempts = 0, !.hist.run = <<>>]
           ELSE w
      [] caller = "reset" -> w
      [] caller = "auto" ->
           LET x == initializeXenova(w, ret)
           IN  IF x.ok
               THEN [loadModel(x.w).w EXCEPT !.setup.auto = "done"]
               ELSE [x.w EXCEPT !.setup.auto = "done"]
      [] caller = "tab" ->
           LET x == initializeXenova(w, ret)
           IN  IF ~x.ok
               THEN setupFailed(x.w, "init")
               ELSE LET y == loadModel([x.w EXCEPT !.setup.tab.ran = @ \cup {"load"}])
                    IN  IF y.ok
                        THEN [y.w EXCEPT !.setup.tab.pc = "mark"]
                        ELSE setupFailed(y.w, "load")

\* initialize() up to its first suspension (lines 271-298).  The dynamic
\* import of the bundled worker module settles without leaving the handler,
\* so the test of this.worker and the creation of the worker are one step.
initialize(caller, w) ==
    IF w.client.worker # 0
    THEN afterInitialize(caller, w.client.isReady, w)
    ELSE [w EXCEPT !.client.worker = w.hist.spawns + 1,
                   !.unit = [phase |-> "spawned", inbox |-> {}],
                   !.hist.spawns = @ + 1,
                   !.inits[caller] = "loading"]

\* startAISetup from the initialization step on (lines 651-657)
tabInit(w) ==
    initialize("tab", [w EXCEPT !.setup.tab.pc = "init",
                                !.setup.tab.ran = @ \cup {"init"}])

\* startAISetup after downloadModel returned ok (lines 645-652)
tabDownloaded(w, ok) ==
    IF ok
    THEN tabInit([w EXCEPT !.service.modelFiles = TRUE])
    ELSE setupFailed(w, "download")

\* a forceReset that keeps the attempt counter and the last-restart time
forceReset_keepCounter(w) ==
    initialize("reset",
        [w EXCEPT !.client = [NoClient EXCEPT !.restartAttempts = w.client.restartAttempts,
                                              !.lastRestartTime = w.client.lastRestartTime],
                  !.unit = NoUnit,
                  !.hist.resets = @ + 1,
                  !.hist.crashTimes = <<>>,
                  !.hist.run = <<>>,
                  !.hist.stoppedAtReset = (w.client.restartAttempts >= MAX_RESTART_ATTEMPTS)])

\* a forceReset that leaves the pending map as it is
forceReset_keepPending(w) ==
    initialize("reset",
        [w EXCEPT !.client = [NoClient EXCEPT !.pendingRequests = w.client.pendingRequests],
                  !.unit = NoUnit,
                  !.hist.resets = @ + 1,
                  !.hist.crashTimes = <<>>,
                  !.hist.run = <<>>,
                  !.hist.stoppedAtReset = (w.client.restartAttempts >= MAX_RESTART_ATTEMPTS)])

\* forceReset() up to the first suspension of its initialize() (lines 588-605)
forceReset(w) ==
    initialize("reset",
        [w EXCEPT !.client = NoClient,
                  !.unit = NoUnit,
                  !.hist.resets = @ + 1,
                  !.hist.crashTimes = <<>>,
                  !.hist.run = <<>>,
                  !.hist.stoppedAtReset = (w.client.restartAttempts >= MAX_RESTART_ATTEMPTS)])

\* everything the client and service actions leave alone
aiFrame == <<idxState, recs, disk, cancelIndexing, cleanupTimers, passes, calls, vault, su,
             boot, seen, note, search, cosine, autoUpdateTimeout, autoTimers, removals,
             loop>>

\* AIManager.initialize, step 3 (lines 97-114): auto-load if the model is on disk
AutoLoad ==
    /\ setup.auto = "idle"
    /\ IF service.modelFiles
       THEN SetAI(initialize("auto", [AI EXCEPT !.setup.auto = "init"]))
       ELSE SetAI([AI EXCEPT !.setup.auto = "done"])
    /\ UNCHANGED <<timers, requests, now, enabled, aiFrame>>

\* startAISetup is started from the settings tab (lines 619-635)
TabStart ==
    /\ hist.setups < MaxSetups
    /\ setup.tab.pc = "idle"
    /\ SetAI([AI EXCEPT !.setup.tab.pc = "check", !.setup.tab.ran = {"check"},
                        !.setup.tab.from = service.status,
                        !.hist.setups = @ + 1])
    /\ UNCHANGED <<timers, requests, now, enabled, aiFrame>>

\* isModelDownloaded() has returned, or thrown from createModelFolders (lines 635-651)
TabCheck ==
    /\ setup.tab.pc = "check"
    /\ \E throws \in BOOLEAN :
          SetAI(IF throws THEN setupFailed(AI, "check")
                ELSE IF service.modelFiles THEN tabInit(AI)
                ELSE [AI EXCEPT !.setup.tab.pc = "download",
                                !.setup.tab.ran = @ \cup {"download"}])
    /\ UNCHANGED <<timers, requests, now, enabled, aiFrame>>

\* downloadModel() has returned (lines 639-652)
TabDownload ==
    /\ setup.tab.pc = "download"
    /\ \E ok \in BOOLEAN : SetAI(tabDownloaded(AI, ok))
    /\ UNCHANGED <<timers, requests, now, enabled, aiFrame>>

\* loadModel()'s setState has been saved: setState('ready') of line 659
TabMark ==
    /\ setup.tab.pc = "mark"
    /\ SetAI([AI EXCEPT !.service = setState(@, "ready", "AI model loaded", "startAISetup"),
                        !.setup.tab.pc = "done",
                        !.setup.tab.ran = @ \cup {"mark"}])
    /\ UNCHANGED <<timers, requests, now, enabled, aiFrame>>

\* loadModelFiles() has ended (lines 298-316, 321-372): the four files were
\* read and posted to this.worker, or a read threw because they are not there
InitFiles(caller) ==
    /\ inits[caller] = "loading"
    /\ IF service.modelFiles
       THEN SetAI([AI EXCEPT !.inits[caller] = "waiting",
                             !.unit.phase = IF @ = "spawned" THEN "loading" ELSE @])
       ELSE SetAI(afterInitialize(caller, FALSE, [AI EXCEPT !.inits[caller] = "idle"]))
    /\ UNCHANGED <<timers, requests, now, enabled, aiFrame>>

\* the worker has loaded its pipeline, or failed to: 'transformers-loaded' or
\* 'error' reaches handleWorkerMessage (lines 404-407, 426-433)
UnitLoaded ==
    /\ unit.phase = "loading"
    /\ \E ok \in BOOLEAN :
          IF ok
          THEN /\ SetAI([AI EXCEPT !.unit.phase = "ready", !.client.isReady = TRUE])
               /\ UNCHANGED requests
          ELSE /\ SetAI([AI EXCEPT !.unit.phase = "failed", !.client.pendingRequests = {}])
               /\ requests' = [id \in RequestIds |->
                                 IF id \in client.pendingRequests
                                 THEN [requests[id] EXCEPT !.state = "rejected"]
                                 ELSE requests[id]]
    /\ UNCHANGED <<timers, now, enabled, aiFrame>>

\* waitForReady() finds isReady set (lines 301-310, 377-388)
InitPoll(caller) ==
    /\ inits[caller] = "waiting"
    /\ client.isReady
    /\ SetAI(afterInitialize(caller, TRUE, [AI EXCEPT !.inits[caller] = "idle",
                                                      !.client.isReady = TRUE]))
    /\ UNCHANGED <<timers, requests, now, enabled, aiFrame>>

\* onerror of the worker: handleWorkerError (lines 440-498)
Crash ==
    /\ client.worker # 0
    /\ hist.crashes < MaxCrashes
    /\ LET r == handleWorkerError(client, now)
       IN  /\ client' = r.cl
           /\ requests' = [id \in RequestIds |->
                             IF id \in client.pendingRequests
                             THEN [requests[id] EXCEPT !.state = "rejected"]
                             ELSE requests[id]]
           /\ timers' = IF r.due >= 0
                        THEN timers \cup {[due |-> r.due, n |-> Len(hist.attempts) + 1]}
                        ELSE timers
           /\ hist' = [hist EXCEPT !.crashes = @ + 1,
                                   !.crashTimes = Append(@, now),
                                   !.attempts = IF r.due >= 0 THEN Append(@, now) ELSE @,
                                   !.run = IF r.due >= 0 THEN Append(@, now) ELSE @]
    /\ UNCHANGED <<unit, inits, service, setup, now, enabled, aiFrame>>

\* the restart scheduled by handleWorkerError is due (lines 485-497)
RestartFire ==
    \E tm \in timers :
        /\ tm.due <= now
        /\ timers' = timers \ {tm}
        /\ SetAI(initialize("restart", [AI EXCEPT !.hist.fires = @ + 1]))
        /\ UNCHANGED <<requests, now, enabled, aiFrame>>

\* the command "AI: Force Reset Worker" (AIManager lines 530-540), registered
\* once the startup auto-load has returned
ForceReset ==
    /\ hist.resets < MaxResets
    /\ setup.auto = "done"
    /\ inits["reset"] = "idle"
    /\ SetAI(forceReset(AI))
    /\ UNCHANGED <<timers, requests, now, enabled, aiFrame>>

\* AIWorkerService.cleanup() (lines 575-583): with a worker, the worker is
\* terminated and the map cleared; without one, nothing
cleanup(w) ==
    IF w.client.worker # 0
    THEN [w EXCEPT !.client.worker = 0, !.client.isReady = FALSE,
                   !.client.pendingRequests = {}, !.unit = NoUnit]
    ELSE w

\* AIService.cleanup() (AIService.ts line 425), called by AIManager.cleanup()
WorkerCleanup ==
    /\ hist.cleanups < MaxCleanups
    /\ SetAI([cleanup(AI) EXCEPT !.hist.cleanups = @ + 1])
    /\ UNCHANGED <<timers, requests, now, enabled, aiFrame>>

\* AIService.generateEmbedding / generateEmbeddingsBatch (lines 244-288) passes
\* its isReady() test and the client accepts the request (lines 503-563)
Request(kind) ==
    /\ AIService_isReady(service, client)
    /\ client.worker # 0 /\ client.isReady
    /\ \E id \in RequestIds :
          /\ requests[id].state = "new"
          /\ \A k \in RequestIds : k < id => requests[k].state # "new"
          /\ requests' = [requests EXCEPT ![id] =
                            [kind |-> kind, sentAt |-> now, state |-> "pending", timer |-> TRUE]]
          /\ client' = [client EXCEPT !.pendingRequests = @ \cup {id}]
          \* the worker's onmessage has no case for 'generate-embeddings-batch'
          /\ unit' = [unit EXCEPT !.inbox = IF kind = "single" THEN @ \cup {id} ELSE @]
    /\ UNCHANGED <<timers, inits, hist, service, setup, now, enabled, aiFrame>>

\* 'embedding-result' for request id reaches handleWorkerMessage (lines 409-419)
Respond(id) ==
    /\ id \in unit.inbox
    /\ unit' = [unit EXCEPT !.inbox = @ \ {id}]
    /\ \E success \in BOOLEAN :
          IF id \in client.pendingRequests
          THEN /\ requests' = [requests EXCEPT ![id].state =
                                  IF success THEN "resolved" ELSE "rejected"]
               /\ client' = [client EXCEPT !.pendingRequests = @ \ {id}]
               /\ UNCHANGED hist
          ELSE /\ hist' = [hist EXCEPT !.late = @ + 1]
               /\ UNCHANGED <<requests, client>>
    /\ UNCHANGED <<timers, inits, service, setup, now, enabled, aiFrame>>

\* the timeout callback of request id runs (lines 526-531, 556-561)
Timeout(id) ==
    /\ requests[id].timer
    /\ dueOf(requests[id]) <= now
    /\ IF id \in client.pendingRequests
       THEN /\ requests' = [requests EXCEPT ![id].timer = FALSE, ![id].state = "rejected"]
            /\ client' = [client EXCEPT !.pendingRequests = @ \ {id}]
       ELSE /\ requests' = [requests EXCEPT ![id].timer = FALSE]
            /\ UNCHANGED client
    /\ hist' = [hist EXCEPT !.timeouts = @ + 1]
    /\ UNCHANGED <<unit, timers, inits, service, setup, now, enabled, aiFrame>>

\* AISettingsService.nuclearReset() with the files deleted (part_003 lines 261-296)
NuclearReset ==
    /\ hist.nuclear < MaxNuclear
    /\ service' = setState([service EXCEPT !.modelFiles = FALSE],
                           "not-configured", "Reset complete", "nuclearReset")
    /\ enabled' = [t \in TypeSet |-> FALSE]
    /\ hist' = [hist EXCEPT !.nuclear = @ + 1]
    /\ UNCHANGED <<client, unit, timers, requests, inits, setup, now, aiFrame>>

\* time passes; a due timer callback runs first
Tick ==
    /\ ~TimerDue
    /\ now < StartTime + MaxElapsed
    /\ now' = now + TickMs
    /\ UNCHANGED <<aiVars, enabled, aiFrame>>

\* the client and the service in a specification that does not exercise them
AIIdle ==
    /\ client = NoClient
    /\ unit = NoUnit
    /\ timers = {}
    /\ requests = [id \in RequestIds |-> NoRequest]
    /\ inits = [c \in Callers |-> "idle"]
    /\ hist = NoHist
    /\ service = [status |-> "not-configured", message |-> "Not configured",
                  aiState |-> "not-configured", modelFiles |-> FALSE, by |-> "constructor"]
    /\ setup = [auto |-> "idle", tab |-> [pc |-> "idle", ran |-> {}, failed |-> {}, from |-> "none"]]

\* =====================================================================
\* AISemanticSearch (src/AI/AISemanticSearch.ts)
\* =====================================================================
SearchPaths == 1..NPaths

\* the value cosineSimilarity returns for a record, as a rank from -MaxScore
\* (opposite vectors) to MaxScore (parallel vectors);
\* NoRecord: the collection has no record for the path
NoRecord == 99
Scores == (0 - MaxScore)..MaxScore

\* the source tag findSimilar gives the results of a collection
SourceOf(c) ==
    CASE c = "titles" -> "title"
      [] c = "headings" -> "heading"
      [] c = "content" -> "content"

\* searchByEmbedding's defaults (lines 32-36); excludePath 0: not given;
\* NotGiven: an option the caller has left out
DefaultTopK == 5
DefaultMinScore == 0
NoExclude == 0
NotGiven == -99

NoScores == [c \in TypeSet |-> [p \in SearchPaths |-> NoRecord]]

\* no search has run
NoSearch ==
    [scores |-> NoScores,
     options |-> [topK |-> NotGiven, excludePath |-> NoExclude, minScore |-> NotGiven],
     result |-> <<>>, ran |-> FALSE]

\* the loop over one collection (lines 62-78, 80-96, 98-114), paths p..NPaths
RECURSIVE collect(_, _, _, _)
collect(scores, c, excludePath, p) ==
    IF p > NPaths THEN <<>>
    ELSE IF scores[c][p] = NoRecord \/ (excludePath # NoExclude /\ p = excludePath)
    THEN collect(scores, c, excludePath, p + 1)
    ELSE <<[path |-> p, score |-> scores[c][p], source |-> SourceOf(c)]>>
         \o collect(scores, c, excludePath, p + 1)

\* allResults: titles, then headings, then content, each if its setting is on
allResults(scores, en, excludePath) ==
    LET of(c) == IF en[c] THEN collect(scores, c, excludePath, 1) ELSE <<>>
    IN  of("titles") \o of("headings") \o of("content")

\* Map.set: a key that is present keeps its place
mapSet(m, r) ==
    IF \E i \in 1..Len(m) : m[i].path = r.path
    THEN [i \in 1..Len(m) |-> IF m[i].path = r.path THEN r ELSE m[i]]
    ELSE Append(m, r)

\* a merge that keeps the last result of a path
RECURSIVE bestByPath_last(_, _)
bestByPath_last(all, m) ==
    IF all = <<>> THEN m
    ELSE bestByPath_last(Tail(all), mapSet(m, Head(all)))

\* the merge (lines 116-123): the values of bestByPath after the results all
\* were offered to the map m
RECURSIVE bestByPath(_, _)
bestByPath(all, m) ==
    IF all = <<>> THEN m
    ELSE LET result == Head(all)
             existing == {i \in 1..Len(m) : m[i].path = result.path}
         IN  IF existing = {} \/ \E i \in existing : result.score > m[i].score
             THEN bestByPath(Tail(all), mapSet(m, result))
             ELSE bestByPath(Tail(all), m)

\* an insertion that sorts by ascending score
RECURSIVE insertByScore_ascending(_, _)
insertByScore_ascending(sorted, r) ==
    IF sorted = <<>> THEN <<r>>
    ELSE IF r.score < Head(sorted).score THEN <<r>> \o sorted
    ELSE <<Head(sorted)>> \o insertByScore_ascending(Tail(sorted), r)

\* insert r into a sequence sorted by descending score, after its equals
RECURSIVE insertByScore(_, _)
insertByScore(sorted, r) ==
    IF sorted = <<>> THEN <<r>>
    ELSE IF r.score > Head(sorted).score THEN <<r>> \o sorted
    ELSE <<Head(sorted)>> \o insertByScore(Tail(sorted), r)

\* merged.sort((a, b) => b.score - a.score) (line 126), a stable sort
RECURSIVE sortByScore(_, _)
sortByScore(merged, sorted) ==
    IF merged = <<>> THEN sorted
    ELSE sortByScore(Tail(merged), insertByScore(sorted, Head(merged)))

\* findSimilar (lines 54-136)
findSimilar(scores, en, topK, excludePath, minScore) ==
    LET merged == sortByScore(bestByPath(allResults(scores, en, excludePath), <<>>), <<>>)
        atLeast(r) == r.score >= minScore
        filtered == IF minScore > 0 THEN SelectSeq(merged, atLeast) ELSE merged
    IN  SubSeq(filtered, 1, Min(topK, Len(filtered)))

\* the destructuring of the options with their defaults (lines 32-36)
topKOf(options) == IF options.topK = NotGiven THEN DefaultTopK ELSE options.topK
minScoreOf(options) == IF options.minScore = NotGiven THEN DefaultMinScore ELSE options.minScore

\* searchByEmbedding (lines 28-39)
searchByEmbedding(scores, en, options) ==
    findSimilar(scores, en, topKOf(options), options.excludePath, minScoreOf(options))

\* a call of searchByEmbedding
Search ==
    /\ ~search.ran
    /\ \E topK \in {NotGiven, 1}, excludePath \in {NoExclude} \cup SearchPaths,
          minScore \in {NotGiven, 0 - MaxScore, 0, MaxScore} :
          LET options == [topK |-> topK, excludePath |-> excludePath, minScore |-> minScore]
          IN  search' = [search EXCEPT !.options = options,
                                       !.result = searchByEmbedding(search.scores, enabled, options),
                                       !.ran = TRUE]
    /\ UNCHANGED <<idxState, recs, disk, cancelIndexing, cleanupTimers, passes, calls, vault,
                   enabled, su, now, boot, seen, note, aiVars, cosine, eventVars, loop>>

\* ---------------------------------------------------------------------
\* cosineSimilarity (lines 138-155) in binary floating point.  A number is
\* sign * m * 2^e with a significand m of FloatBits bits, 0 for zero; every
\* operation rounds its exact result to the nearest such number, ties to
\* even, as binary64 does with its significand of 53 bits.
\* ---------------------------------------------------------------------
Components == (0 - MaxComp)..MaxComp
Vectors == [1..VecLen -> Components]

RECURSIVE bitLength(_)
bitLength(n) == IF n = 0 THEN 0 ELSE 1 + bitLength(n \div 2)

\* n * 2^e, n > 0, rounded to FloatBits bits
roundToNearest(n, e) ==
    LET s == bitLength(n) - FloatBits
    IN  IF s <= 0
        THEN [m |-> n * 2 ^ (0 - s), e |-> e + s]
        ELSE LET q == n \div 2 ^ s
                 r == n % 2 ^ s
                 half == 2 ^ (s - 1)
                 up == r > half \/ (r = half /\ q % 2 = 1)
                 q1 == IF up THEN q + 1 ELSE q
             IN  IF q1 = 2 ^ FloatBits
                 THEN [m |-> 2 ^ (FloatBits - 1), e |-> e + s + 1]
                 ELSE [m |-> q1, e |-> e + s]

Zero == [m |-> 0, e |-> 0]

\* the sums of products of the loop (lines 147-151) are integers below
\* 2^FloatBits, so they are exact

\* the least k with n * 4^k >= 4^FloatBits
RECURSIVE sqrtScale(_, _)
sqrtScale(n, k) == IF n * 4 ^ k >= 4 ^ FloatBits THEN k ELSE sqrtScale(n, k + 1)

\* Math.sqrt of the integer n
sqrtOf(n) ==
    IF n = 0 THEN Zero
    ELSE LET k == sqrtScale(n, 0)
             S == n * 4 ^ k
             r == CHOOSE x \in 0..(2 ^ (FloatBits + 1)) : x * x <= S /\ (x + 1) * (x + 1) > S
             sticky == IF r * r < S THEN 1 ELSE 0
         IN  roundToNearest(2 * r + sticky, 0 - k - 1)

\* x * y
times(x, y) ==
    IF x.m = 0 \/ y.m = 0 THEN Zero ELSE roundToNearest(x.m * y.m, x.e + y.e)

\* the least k with (d * 2^k) div m >= 2^(FloatBits + 1)
RECURSIVE divScale(_, _, _)
divScale(d, m, k) ==
    IF (d * 2 ^ k) \div m >= 2 ^ (FloatBits + 1) THEN k ELSE divScale(d, m, k + 1)

\* d / y for an integer d > 0 and y > 0
dividedBy(d, y) ==
    LET k == divScale(d, y.m, 0)
        q == (d * 2 ^ k) \div y.m
        sticky == IF (d * 2 ^ k) % y.m # 0 THEN 1 ELSE 0
    IN  roundToNearest(2 * q + sticky, 0 - k - 1 - y.e)

\* x > 1, for x >= 0
aboveOne(x) ==
    IF x.e >= 0 THEN x.m * 2 ^ x.e > 1 ELSE x.m > 2 ^ (0 - x.e)

RECURSIVE dot(_, _, _)
dot(a, b, i) == IF i > VecLen THEN 0 ELSE a[i] * b[i] + dot(a, b, i + 1)

Abs(n) == IF n < 0 THEN 0 - n ELSE n

\* cosineSimilarity(a, b) (lines 138-155): the sign and the magnitude of
\* dotProduct / (Math.sqrt(normA) * Math.sqrt(normB)), 0 if the denominator is 0
cosineSimilarity(a, b) ==
    LET dotProduct == dot(a, b, 1)
        normA == dot(a, a, 1)
        normB == dot(b, b, 1)
        denominator == times(sqrtOf(normA), sqrtOf(normB))
    IN  IF denominator.m = 0 \/ dotProduct = 0
        THEN [sign |-> 0, abs |-> Zero]
        ELSE [sign |-> IF dotProduct < 0 THEN -1 ELSE 1,
              abs |-> dividedBy(Abs(dotProduct), denominator)]

\* no similarity has been computed
NoCosine ==
    [a |-> [i \in 1..VecLen |-> 0], b |-> [i \in 1..VecLen |-> 0],
     similarity |-> [sign |-> 0, abs |-> Zero], ran |-> FALSE]

\* a call of cosineSimilarity on two vectors of the same length
Cosine ==
    /\ ~cosine.ran
    /\ \E a \in Vectors, b \in Vectors :
          cosine' = [a |-> a, b |-> b, similarity |-> cosineSimilarity(a, b), ran |-> TRUE]
    /\ UNCHANGED <<idxState, recs, disk, cancelIndexing, cleanupTimers, passes, calls, vault,
                   enabled, su, now, boot, seen, note, aiVars, search, eventVars, loop>>

\* =====================================================================
\* The chunk loop of a pass by its counters (indexAllTitles, lines 231-275;
\* indexAllHeadings, 277-322; indexAllContent, 324-368), every document
\* indexed without failure and nothing else running
\* =====================================================================
\* saved: the value of indexed when the envelope was last persisted;
\* notified: the same for the last triggerIndexingUpdate with a count
NoLoop ==
    [pc |-> "idle", type |-> "titles", files |-> <<>>, i |-> 0, indexed |-> 0,
     progress |-> 0, total |-> 0, saved |-> 0, notified |-> 0, chunks |-> 0]

\* indexSpecificType up to the loop (lines 163-174): the lock, saved at once
LoopStart ==
    /\ loop.pc = "idle"
    /\ \E t \in TypeSet, n \in 0..MaxLoopFiles :
          loop' = [NoLoop EXCEPT !.pc = "chunks", !.type = t, !.files = [k \in 1..n |-> k],
                                 !.total = n]
    /\ UNCHANGED <<idxState, recs, disk, cancelIndexing, cleanupTimers, passes, calls, vault,
                   enabled, su, now, boot, seen, note, aiVars, searchVars, eventVars>>

\* one turn of the chunk loop: the chunk's documents, indexed += chunk.length,
\* the progress, and the save and notification when indexed % saveEvery = 0
LoopChunk ==
    /\ loop.pc = "chunks"
    /\ loop.i < Len(loop.files)
    /\ LET ind == loop.indexed + chunkLen(loop)
           due == ind % saveEvery(loop.type) = 0
       IN  loop' = [loop EXCEPT !.indexed = ind, !.progress = ind,
                                !.i = @ + chunkSize(loop.type),
                                !.saved = IF due THEN ind ELSE @,
                                !.notified = IF due THEN ind ELSE @,
                                !.chunks = @ + 1]
    /\ UNCHANGED <<idxState, recs, disk, cancelIndexing, cleanupTimers, passes, calls, vault,
                   enabled, su, now, boot, seen, note, aiVars, searchVars, eventVars>>

\* the loop is over: the completion of indexSpecificType (lines 201-216)
\* saves, and zeroes progress and total in memory
LoopEnd ==
    /\ loop.pc = "chunks"
    /\ loop.i >= Len(loop.files)
    /\ loop' = [loop EXCEPT !.pc = "done", !.saved = loop.indexed, !.progress = 0,
                            !.total = 0]
    /\ UNCHANGED <<idxState, recs, disk, cancelIndexing, cleanupTimers, passes, calls, vault,
                   enabled, su, now, boot, seen, note, aiVars, searchVars, eventVars>>

\* =====================================================================
\* The vault events (AIManager.registerEventListeners)
\* =====================================================================
AutoIds == 1..MaxAuto
NoAuto == [path |-> 0, state |-> "unused", due |-> 0]

EventsIdle ==
    /\ autoUpdateTimeout = [f \in Paths |-> 0]
    /\ autoTimers = [id \in AutoIds |-> NoAuto]
    /\ removals = [p \in Paths |-> "none"]

\* ------------------------------------------------------ the 'delete' event
\* removeNote(path) up to its await (lines 370-391): the records of the path
\* leave the three collections; the envelope is saved if there was one
removeNote(rc, p) ==
    [rc |-> [t \in TypeSet |-> [rc[t] EXCEPT ![p] = 0]],
     removed |-> \E t \in TypeSet : rc[t][p] # 0]

\* the 'delete' event of a document: handleFileDelete calls removeNote, which
\* returns at once when the store has no record of the path
DeleteCall(p) ==
    /\ removals[p] = "none"
    /\ LET r == removeNote(recs, p)
       IN  /\ recs' = r.rc
           /\ disk' = IF r.removed THEN save(idxState, r.rc) ELSE disk
           /\ removals' = [removals EXCEPT ![p] = IF r.removed THEN "saving" ELSE "done"]
    /\ UNCHANGED <<idxState, cancelIndexing, cleanupTimers, passes, calls, vault, enabled,
                   su, now, boot, seen, note, autoUpdateTimeout, autoTimers>>

\* the awaited save of removeNote is done: the handler completes
DeleteReturn(p) ==
    /\ removals[p] = "saving"
    /\ removals' = [removals EXCEPT ![p] = "done"]
    /\ UNCHANGED <<idxState, recs, disk, cancelIndexing, cleanupTimers, passes, calls, vault,
                   enabled, su, now, boot, seen, note, autoUpdateTimeout, autoTimers>>

\* ------------------------------------------- the 'modify' / 'create' events
\* the delay of setTimeout in scheduleAutoUpdate (line 414)
DebounceMs == 5000

\* clearTimeout(handle): a timer that has not fired yet never will; on a timer
\* that has fired it does nothing
clearTimeout(tm, id) ==
    IF id # 0 /\ tm[id].state = "pending" THEN [tm EXCEPT ![id].state = "cleared"] ELSE tm

\* scheduleAutoUpdate(file) (lines 398-417), called by the 'modify' and the
\* 'create' event: the timer in the map is cleared, a new one takes its place
scheduleAutoUpdate(tm, map, f, id) ==
    [tm |-> [clearTimeout(tm, map[f]) EXCEPT
                ![id] = [path |-> f, state |-> "pending", due |-> now + DebounceMs]],
     map |-> [map EXCEPT ![f] = id]]

\* a 'modify' event of document f: the document has a later mtime (the
\* clock of mtimes stops at MaxMtime)
Notify(f) ==
    /\ \E id \in AutoIds :
          /\ autoTimers[id].state = "unused"
          /\ \A j \in AutoIds : j < id => autoTimers[j].state # "unused"
          /\ LET r == scheduleAutoUpdate(autoTimers, autoUpdateTimeout, f, id)
             IN  /\ autoTimers' = r.tm
                 /\ autoUpdateTimeout' = r.map
    /\ vault' = [vault EXCEPT ![f].mtime = Min(@ + 1, MaxMtime)]
    /\ UNCHANGED <<idxState, recs, disk, cancelIndexing, cleanupTimers, passes, calls,
                   enabled, su, now, boot, seen, note, removals>>

\* a timer fires: its callback calls updateNoteIfNeeded(file). With nothing
\* to update the call returns without waiting for anything and the finally
\* block (line 412) runs at once; otherwise the callback awaits indexNote,
\* whose save is a write to the vault
AutoFire(id) ==
    /\ autoTimers[id].state = "pending"
    /\ now >= autoTimers[id].due
    /\ LET f == autoTimers[id].path
       IN  /\ UpdateNoteIfNeeded(f)
           /\ IF needsUpdate(recs, f)
              THEN /\ autoTimers' = [autoTimers EXCEPT ![id].state = "running"]
                   /\ UNCHANGED autoUpdateTimeout
              ELSE /\ autoTimers' = [autoTimers EXCEPT ![id].state = "done"]
                   /\ autoUpdateTimeout' = [autoUpdateTimeout EXCEPT ![f] = 0]
    /\ UNCHANGED removals

\* the awaited updateNoteIfNeeded returns: finally, the entry of the path
\* leaves the map (line 412)
AutoDone(id) ==
    /\ autoTimers[id].state = "running"
    /\ autoTimers' = [autoTimers EXCEPT ![id].state = "done"]
    /\ autoUpdateTimeout' = [autoUpdateTimeout EXCEPT ![autoTimers[id].path] = 0]
    /\ UNCHANGED <<idxState, recs, disk, cancelIndexing, cleanupTimers, passes, calls, vault,
                   enabled, su, now, boot, seen, note, removals>>

\* time passes, but not beyond a timer that is due
AutoTick ==
    /\ now + AutoTickMs <= 1 + AutoElapsed
    /\ \A id \in AutoIds : autoTimers[id].state = "pending" => autoTimers[id].due > now
    /\ now' = now + AutoTickMs
    /\ UNCHANGED <<idxState, recs, disk, cancelIndexing, cleanupTimers, passes, calls, vault,
                   enabled, su, boot, seen, note, eventVars, loop>>

\* --------------------------------------------------- the specification
\* The envelope found at startup: empty, or left by an interrupted session
\* with one collection's lock still fresh, and some title records.
InitEnvelopes ==
    { [st |-> IF lk = "none" THEN EmptyStates
              ELSE setIndexingState(EmptyStates, lk,
                      [isIndexing |-> TRUE, progress |-> 0, total |-> NFiles, lastHeartbeat |-> 1]),
       rc |-> IF some THEN [EmptyRecs EXCEPT !["titles"][1] = 1] ELSE EmptyRecs]
      : lk \in {"content", "none"}, some \in BOOLEAN }

InitVaults ==
    { [p \in Paths |-> [mtime |-> 1, headings |-> (p # 1), bad |-> (p = b)]] : b \in {2} }

InitSettings ==
    { [t \in TypeSet |-> t \in on] : on \in {{"titles"}, {"headings", "content"}} }

Init ==
    /\ \E e \in InitEnvelopes :
          /\ idxState = e.st
          /\ recs = e.rc
          /\ disk = save(e.st, e.rc)
    /\ cancelIndexing = FALSE
    /\ cleanupTimers = 0
    /\ passes = [c \in Slots |-> NoPass]
    /\ calls = 0
    /\ vault \in InitVaults
    /\ enabled \in InitSettings
    /\ su = NoSu
    /\ now = 1
    /\ boot = "loaded"
    /\ seen = NoSeen
    /\ note = NoNote
    /\ AIIdle
    /\ search = NoSearch
    /\ cosine = NoCosine
    /\ EventsIdle
    /\ loop = NoLoop

EngineNext ==
    \/ \E t \in TypeSet : UserCall(t)
    \/ \E c \in Slots : AfterSave(c)
    \/ \E c \in Slots : AfterDelay(c)
    \/ \E c \in Slots : DocStart(c)
    \/ \E c \in Slots : EmbedDone(c)
    \/ \E c \in Slots : CompleteDone(c)
    \/ \E c \in Slots : Return(c)
    \/ Cancel
    \/ Cleanup
    \/ SuStart
    \/ SuResume

Next == EngineNext /\ UNCHANGED <<noteVars, aiVars, searchVars, eventVars, loop>>

Spec == Init /\ [][Next]_vars

\* ------------------------------------- the specification of load()
\* Heartbeat ages, in ms, of the envelopes load() is tried on
Ages == {0, 10000, 30000, 30001, 31000, 60000, LoadTime}

\* A state record as an earlier 2.0.0 build wrote it: no lastHeartbeat field
legacyState(locked) ==
    [isIndexing |-> locked, progress |-> 0, total |-> 0, lastIndexed |-> 0]

\* The files load() may find: none, one of another version, or a 2.0.0 envelope
\* with at most one collection locked, its heartbeat of some age or missing
LoadEnvelopes ==
    {[exists |-> FALSE, version |-> "2.0.0", states |-> EmptyStates, recs |-> EmptyRecs]}
    \cup
    { [exists |-> TRUE, version |-> v,
       states |-> IF lk = "none" THEN EmptyStates
                  ELSE [EmptyStates EXCEPT ![lk] =
                          IF a = -1 THEN legacyState(TRUE)
                          ELSE [isIndexing |-> TRUE, progress |-> 1, total |-> NFiles,
                                lastIndexed |-> 0, lastHeartbeat |-> LoadTime - a]],
       recs |-> IF some THEN [EmptyRecs EXCEPT !["titles"][1] = 1] ELSE EmptyRecs]
      : v \in {"2.0.0", "1.0.0"}, lk \in TypeSet \cup {"none"},
        a \in Ages \cup {-1}, some \in BOOLEAN }

InitLoad ==
    /\ disk \in LoadEnvelopes
    /\ idxState = EmptyStates
    /\ recs = EmptyRecs
    /\ cancelIndexing = FALSE
    /\ cleanupTimers = 0
    /\ passes = [c \in Slots |-> NoPass]
    /\ calls = 0
    /\ vault \in InitVaults
    /\ enabled \in InitSettings
    /\ su = NoSu
    /\ now = LoadTime
    /\ boot = "constructed"
    /\ seen = NoSeen
    /\ note = NoNote
    /\ AIIdle
    /\ search = NoSearch
    /\ cosine = NoCosine
    /\ EventsIdle
    /\ loop = NoLoop

NextLoad == Load /\ UNCHANGED <<aiVars, searchVars, eventVars, loop>>

SpecLoad == InitLoad /\ [][NextLoad]_vars

\* ------------------------------------- the specification of indexNote
NoteRecs ==
    { [t \in TypeSet |-> [p \in Paths |-> IF p = 1 /\ t \in have THEN 1 ELSE 0]]
      : have \in {{}, {"titles"}, {"headings", "content"}} }

InitNote ==
    /\ recs \in NoteRecs
    /\ idxState = EmptyStates
    /\ disk = save(idxState, recs)
    /\ cancelIndexing = FALSE
    /\ cleanupTimers = 0
    /\ passes = [c \in Slots |-> NoPass]
    /\ calls = 0
    /\ vault \in InitVaults
    /\ enabled \in [TypeSet -> BOOLEAN]
    /\ su = NoSu
    /\ now = 1
    /\ boot = "loaded"
    /\ seen = NoSeen
    /\ note = NoNote
    /\ AIIdle
    /\ search = NoSearch
    /\ cosine = NoCosine
    /\ EventsIdle
    /\ loop = NoLoop

\* the documents indexNote is tried on: one without headings, one with
NotePaths == {1, 2}

NoteNext ==
    \/ \E f \in NotePaths : IndexNote(f)
    \/ \E f \in NotePaths : UpdateNoteIfNeeded(f)
    \/ \E f \in NotePaths : Modify(f)

NextNote == NoteNext /\ UNCHANGED <<aiVars, searchVars, eventVars, loop>>

SpecNote == InitNote /\ [][NextNote]_vars


\* ------------------- the specification of the inference client and service
\* AIService as constructed (lines 15-31): the status is the one persisted in
\* settings.aiState by an earlier session; the model files are there or not
InitServices ==
    { [status |-> s, message |-> IF s = "not-configured" THEN "Not configured" ELSE "restored",
       aiState |-> s, modelFiles |-> f, by |-> "constructor"]
      : s \in {"not-configured", "ready", "error"}, f \in BOOLEAN }

InitAI ==
    /\ idxState = EmptyStates
    /\ recs = EmptyRecs
    /\ disk = save(EmptyStates, EmptyRecs)
    /\ cancelIndexing = FALSE
    /\ cleanupTimers = 0
    /\ passes = [c \in Slots |-> NoPass]
    /\ calls = 0
    /\ vault \in InitVaults
    /\ enabled = [t \in TypeSet |-> TRUE]
    /\ su = NoSu
    /\ now = StartTime
    /\ boot = "loaded"
    /\ seen = NoSeen
    /\ note = NoNote
    /\ client = NoClient
    /\ unit = NoUnit
    /\ timers = {}
    /\ requests = [id \in RequestIds |-> NoRequest]
    /\ inits = [c \in Callers |-> "idle"]
    /\ hist = NoHist
    /\ setup = [auto |-> "idle", tab |-> [pc |-> "idle", ran |-> {}, failed |-> {}, from |-> "none"]]
    /\ search = NoSearch
    /\ cosine = NoCosine
    /\ EventsIdle
    /\ loop = NoLoop

\* The restart policy: a session whose model is on disk, crashes of the
\* worker at any time, the restarts and the manual reset.
InitRestart ==
    /\ InitAI
    /\ service \in {sv \in InitServices : sv.modelFiles /\ sv.status # "error"}

NextRestart ==
    \/ AutoLoad
    \/ \E c \in Callers : InitFiles(c)
    \/ UnitLoaded
    \/ \E c \in Callers : InitPoll(c)
    \/ Crash
    \/ RestartFire
    \/ ForceReset
    \/ Tick

SpecRestart == InitRestart /\ [][NextRestart]_vars

\* The requests: a session that was set up before, embedding requests, their
\* answers and timeouts, and one crash of the worker.
InitRequests ==
    /\ InitAI
    /\ service \in {sv \in InitServices : sv.modelFiles /\ sv.status = "ready"}

NextRequests ==
    \/ AutoLoad
    \/ \E c \in Callers : InitFiles(c)
    \/ UnitLoaded
    \/ \E c \in Callers : InitPoll(c)
    \/ (Crash /\ hist.crashes < RequestsCrashes)
    \/ RestartFire
    \/ \E k \in {"single", "batch"} : Request(k)
    \/ \E id \in RequestIds : Respond(id)
    \/ \E id \in RequestIds : Timeout(id)
    \/ (Tick /\ now < StartTime + RequestsElapsed)

SpecRequests == InitRequests /\ [][NextRequests]_vars

\* The service: every persisted status, the startup auto-load, the setup of
\* the settings tab, the nuclear reset and one crash of the worker.
InitService ==
    /\ InitAI
    /\ service \in InitServices

NextService ==
    \/ AutoLoad
    \/ TabStart
    \/ TabCheck
    \/ TabDownload
    \/ TabMark
    \/ \E c \in Callers : InitFiles(c)
    \/ UnitLoaded
    \/ \E c \in Callers : InitPoll(c)
    \/ (Crash /\ hist.crashes < ServiceCrashes)
    \/ RestartFire
    \/ ForceReset
    \/ NuclearReset
    \/ (Tick /\ now < StartTime + ServiceElapsed)

SpecService == InitService /\ [][NextService]_vars

\* =====================================================================
\* Claims about the indexing lock and the passes (checked under Spec)
\* =====================================================================
Locked == {t \in TypeSet : idxState[t].isIndexing}
Running == {c \in Slots : Iterating(passes[c])}

\* C1: in every reachable state at most one of the three isIndexing flags of
\* the store is true, whatever the interleaving of calls, cancellation,
\* cleanup, completion, failure and the startup consistency pass.
C1_AtMostOneFlag == Cardinality(Locked) <= 1

\* a lock is held by one collection while a pass of another collection, whose
\* lock the deferred cleanup has cleared, is still iterating
C1_Witness ==
    \E c \in Slots, t \in Locked :
        Iterating(passes[c]) /\ passes[c].swept /\ passes[c].type # t

\* C2: at most one indexing pass is iterating its chunks at any time.
C2_OnePassIterating == Cardinality(Running) <= 1

\* C3: a call rejected by the lock check changes nothing: the indexing states,
\* the records, the cancellation flag, the persisted envelope, the pending
\* cleanup and every other call are as before, so no embedding is requested.
C3_RejectedCallChangesNothing ==
    [][\A c \in Slots :
          (passes[c].pc = "new" /\ passes'[c].pc = "rejected")
          => /\ UNCHANGED <<idxState, recs, disk, cancelIndexing, cleanupTimers>>
             /\ \A d \in Slots \ {c} : passes'[d] = passes[d]]_vars

\* a call was rejected while a pass was iterating and a cancellation was pending
C3_Witness ==
    \E c, d \in Slots :
        passes[c].pc = "rejected" /\ Iterating(passes[d]) /\ cancelIndexing /\ Locked # {}

C6_CancelledPassDoesNotComplete ==
    [][\A c \in Slots :
          /\ (passes'[c].cancelled /\ ~passes[c].cancelled)
             => idxState'[passes'[c].type].lastIndexed = idxState[passes'[c].type].lastIndexed
          /\ (passes[c].cancelled /\ passes'[c].cancelled)
             => passes'[c].pc \notin {"delay", "doc", "embed", "done"}]_vars

\* C7: when an error is thrown out of a pass, at the moment indexSpecificType
\* re-raises it the collection's state has isIndexing false and progress and
\* total zero, and the call ends with the error.
C7_FailedPassReleasesLock ==
    [][\A c \in Slots :
          (passes'[c].pc = "thrown" /\ passes[c].pc # "thrown")
          => /\ ~idxState'[passes'[c].type].isIndexing
             /\ idxState'[passes'[c].type].progress = 0
             /\ idxState'[passes'[c].type].total = 0
             /\ passes'[c].err]_vars

\* a pass has thrown after indexing a whole chunk
C7_Witness ==
    \E c \in Slots : passes[c].pc = "thrown" /\ passes[c].indexed > 0 /\ Locked = {}

\* C8: when a pass completes normally the collection's state has isIndexing
\* false, lastIndexed set, progress and total zero, and the envelope persisted
\* at completion carries isIndexing false with progress and total zero.
C8_CompletionPersistsZeroedState ==
    [][\A c \in Slots :
          (passes'[c].pc = "done" /\ passes[c].pc = "completing" /\ ~passes[c].cancelled)
          => LET t == passes[c].type
             IN  /\ idxState'[t].progress = 0 /\ idxState'[t].total = 0
                 /\ idxState'[t].lastIndexed > 0
                 /\ ~disk'.states[t].isIndexing
                 /\ disk'.states[t].progress = 0 /\ disk'.states[t].total = 0]_vars

\* C10: a failing document never aborts the pass: the next document of the
\* chunk is visited next, a pass that is not cancelled ends through normal
\* completion with every document visited and the lock released, and every
\* document that did not fail has its record.
C10_DocumentFailureIsIsolated ==
    [][\A c \in Slots :
          /\ (InFlight(passes[c]) /\ passes'[c].failed # passes[c].failed)
             => IF passes[c].j + 1 < chunkLen(passes[c])
                THEN passes'[c].pc = "doc" /\ passes'[c].j = passes[c].j + 1
                ELSE passes'[c].pc = "thrown" => passes[c].cb
          /\ (passes'[c].pc = "thrown") => passes'[c].cb
          /\ (passes'[c].pc = "completing" /\ passes[c].pc # "completing" /\ ~passes'[c].cancelled)
             => LET p == passes'[c]
                IN  /\ p.indexed = Len(p.files)
                    /\ ~idxState'[p.type].isIndexing
                    /\ \A k \in 1..Len(p.files) :
                          \/ p.files[k] \in p.failed
                          \/ recs'[p.type][p.files[k]] = vault[p.files[k]].mtime
                          \/ (p.type = "headings" /\ ~vault[p.files[k]].headings
                              /\ recs'[p.type][p.files[k]] = 0)]_vars

\* a pass in which a document failed has completed normally over all documents
C10_Witness ==
    \E c \in Slots :
        /\ passes[c].pc = "done" /\ ~passes[c].cancelled
        /\ passes[c].failed # {} /\ passes[c].indexed = NFiles

\* =====================================================================
\* load() (checked under SpecLoad)
\* =====================================================================
\* load() leaves the file as it is, so after Load disk still is what was read
persistedHeartbeat(t) ==
    IF "lastHeartbeat" \in DOMAIN disk.states[t] THEN disk.states[t].lastHeartbeat ELSE 0

LoadedLocks ==
    IF boot = "loaded" /\ disk.exists /\ disk.version = "2.0.0"
    THEN {t \in TypeSet : disk.states[t].isIndexing}
    ELSE {}

\* C4 as stated: for every lastHeartbeat value of a collection persisted with
\* isIndexing true, load() leaves the flag false if the heartbeat is more than
\* 30 s before the load time and true if it is 30 s old or less.
C4_StaleRecoveryEveryHeartbeat ==
    \A t \in LoadedLocks :
        /\ (now - persistedHeartbeat(t) > StaleAfterMs) => ~idxState[t].isIndexing
        /\ (now - persistedHeartbeat(t) <= StaleAfterMs) => idxState[t].isIndexing

\* C4, amended: the above holds for every recorded heartbeat (lastHeartbeat > 0);
\* a lock persisted with lastHeartbeat 0 or without the field stays true.
C4_StaleRecoveryRecordedHeartbeat ==
    \A t \in LoadedLocks :
        LET hb == persistedHeartbeat(t)
        IN  /\ (hb > 0 /\ now - hb > StaleAfterMs) => ~idxState[t].isIndexing
            /\ (hb > 0 /\ now - hb <= StaleAfterMs) => idxState[t].isIndexing
            /\ (hb = 0) => idxState[t].isIndexing

\* a lock whose heartbeat was 30 s old to the millisecond has been kept
C4_Witness ==
    \E t \in LoadedLocks :
        /\ now - persistedHeartbeat(t) = StaleAfterMs
        /\ idxState[t].isIndexing

C29_UpdateIffMissingOrStale ==
    [][\A f \in NotePaths :
         (vault' = vault /\ note'.path = f /\ note'.update # "none"
            /\ (note' # note \/ recs' # recs))
         => /\ (note'.update = "indexed")
               <=> \/ \A t \in TypeSet : enabled[t] => recs[t][f] = 0
                   \/ \E t \in TypeSet : recs[t][f] # 0 /\ recs[t][f] # vault[f].mtime
            /\ (note'.update = "skipped") => (recs' = recs /\ note'.reqs = 0)]_vars

\* a call of indexNote on document f ends in this step
IndexNoteOn(f) ==
    /\ vault' = vault
    /\ note'.path = f /\ note'.update # "skipped"
    /\ (note' # note \/ recs' # recs \/ seen' # seen)

\* what indexNote leaves for document f in collection t when nothing failed
AsIndexed(t, f) ==
    IF ~enabled[t] THEN recs'[t] = recs[t]
    ELSE IF t = "headings" /\ ~vault[f].headings THEN recs'[t][f] = 0
    ELSE recs'[t][f] = vault[f].mtime

CrashStep == hist'.crashes = hist.crashes + 1
NCrashes == Len(hist.crashTimes)

\* the last four crashes, with no forceReset() among them, lie within 60 s
FourCrashesInWindow ==
    /\ NCrashes >= 4
    /\ hist.crashTimes[NCrashes] - hist.crashTimes[NCrashes - 3] <= RestartWindowMs

\* the number of restart attempts of ts scheduled in the 60 s that start at a
InWindow(ts, a) ==
    Cardinality({j \in 1..Len(ts) : ts[j] >= a /\ ts[j] < a + RestartWindowMs})

\* C11 as stated: the 4th of any 4 consecutive crashes within 60 s schedules
\* no restart attempt and leaves the client stopped, not ready and with no
\* restart pending, for as long as forceReset() is not invoked.
C11_FourthCrashStops ==
    [][FourCrashesInWindow'
       => /\ CrashStep => timers' = timers
          /\ ~client'.isReady
          /\ timers' = {}]_vars

\* C11, amended: a crash that finds the attempt counter at 3, the last attempt
\* at most 60 s old, schedules no restart, leaves the counter at 3 and the
\* client not ready; that is the 4th of 4 crashes within 60 s when each of the
\* three before it scheduled an attempt and no restart found the client ready
\* in between.
C11_CrashAtThreeAttemptsStops ==
    [][CrashStep
       => /\ (client.restartAttempts = MAX_RESTART_ATTEMPTS
              /\ now - client.lastRestartTime <= RestartWindowMs)
             => /\ timers' = timers
                /\ client'.restartAttempts = MAX_RESTART_ATTEMPTS
                /\ ~client'.isReady
          /\ (FourCrashesInWindow'
              /\ Len(hist.run) >= 3
              /\ \A k \in 1..3 :
                    hist.run[Len(hist.run) - 3 + k] = hist.crashTimes[NCrashes - 3 + k])
             => timers' = timers /\ ~client'.isReady]_vars

\* the 4th of four crashes within 60 s found three attempts made and stopped
C11_Witness ==
    /\ hist.crashes = 4 /\ hist.resets = 0
    /\ FourCrashesInWindow
    /\ hist.crashTimes[4] > hist.crashTimes[3]
    /\ Len(hist.run) = 3
    /\ client.restartAttempts = MAX_RESTART_ATTEMPTS
    /\ ~client.isReady

\* C12 as stated: in any rolling 60 s window the crash handler schedules at
\* most 3 restart attempts, whatever the crash times and restart outcomes.
C12_ThreeAttemptsPerWindow ==
    hist.resets = 0
    => \A i \in 1..Len(hist.attempts) : InWindow(hist.attempts, hist.attempts[i]) <= 3

\* C12, amended: that holds for the attempts scheduled since the counter was
\* last reset by a restart that found the client ready or by forceReset();
\* the counter never exceeds 3 and two such attempts are at least 5 s apart.
C12_ThreeAttemptsPerWindowSinceReset ==
    /\ \A i \in 1..Len(hist.run) : InWindow(hist.run, hist.run[i]) <= 3
    /\ client.restartAttempts <= MAX_RESTART_ATTEMPTS
    /\ \A i \in 1..(Len(hist.run) - 1) : hist.run[i + 1] - hist.run[i] >= MIN_RESTART_INTERVAL

\* three attempts within 15 s, a fourth crash refused, no reset in between
C12_Witness ==
    /\ Len(hist.run) = 3 /\ hist.crashes = 4 /\ hist.resets = 0
    /\ hist.run[3] - hist.run[1] <= 15000
    /\ hist.crashTimes[4] > hist.run[3]
    /\ timers = {}

\* C13: when the backoff delay of a scheduled restart elapses the client
\* re-initializes the inference unit: a new worker is spawned and loaded.
C13_RestartReinitializes ==
    [][hist'.fires = hist.fires + 1
       => /\ hist'.spawns = hist.spawns + 1
          /\ client'.worker = hist'.spawns
          /\ unit'.phase = "spawned"]_vars

\* C16: forceReset() terminates the worker if any, leaves isReady false, the
\* attempt counter 0, the last-restart time 0 and the pending map empty, and
\* its initialize() has spawned a new worker that is being loaded.
C16_ForceResetRecovers ==
    [][hist'.resets = hist.resets + 1
       => /\ hist'.spawns = hist.spawns + 1
          /\ client' = [worker |-> hist'.spawns, isReady |-> FALSE, pendingRequests |-> {},
                        restartAttempts |-> 0, lastRestartTime |-> 0]
          /\ unit' = [phase |-> "spawned", inbox |-> {}]
          /\ inits'["reset"] = "loading"]_vars

\* a client stopped after 3 attempts was reset and is ready again
C16_Witness ==
    /\ hist.resets = 1 /\ hist.stoppedAtReset
    /\ client.isReady /\ unit.phase = "ready"
    /\ client.restartAttempts = 0

\* =====================================================================
\* The requests of the inference client (checked under SpecRequests)
\* =====================================================================
\* C14: on a crash every pending request is rejected, the pending map is
\* empty afterwards and the client reports not ready, whatever the restart
\* policy decides.
C14_CrashRejectsAllPending ==
    [][CrashStep
       => /\ client'.pendingRequests = {}
          /\ \A id \in client.pendingRequests : requests'[id].state = "rejected"
          /\ \A id \in RequestIds \ client.pendingRequests : requests'[id] = requests[id]
          /\ ~client'.isReady
          /\ ~isWorkerReady(client')]_vars

\* a crash has rejected two pending requests that had neither been answered
\* nor timed out
C14_Witness ==
    /\ hist.crashes >= 1
    /\ \A id \in RequestIds :
          /\ requests[id].state = "rejected" /\ requests[id].timer
          /\ requests[id].kind = "batch" \/ id \in unit.inbox
    /\ client.pendingRequests = {}

\* C15: a request not answered within 10 s (30 s for a batch) is rejected at
\* the first instant of the clock from then on and its pending entry deleted; every other request stays as it is, pending or
\* not; an answer that arrives for an id no longer pending settles nothing.
C15_TimeoutRejectsOneRequest ==
    [][/\ \A id \in RequestIds :
             (hist'.timeouts = hist.timeouts + 1 /\ requests[id].timer /\ ~requests'[id].timer)
             => /\ now - requests[id].sentAt
                      >= (IF requests[id].kind = "batch" THEN BatchTimeoutMs
                                                         ELSE EmbeddingTimeoutMs)
                /\ now - requests[id].sentAt
                      < (IF requests[id].kind = "batch" THEN BatchTimeoutMs
                                                        ELSE EmbeddingTimeoutMs) + TickMs
                /\ id \in client.pendingRequests => requests'[id].state = "rejected"
                /\ id \notin client.pendingRequests => requests'[id].state = requests[id].state
                /\ client'.pendingRequests = client.pendingRequests \ {id}
                /\ \A o \in RequestIds \ {id} : requests'[o] = requests[o]
       /\ hist'.late = hist.late + 1
          => requests' = requests /\ client' = client]_vars

\* a request has timed out while another stayed pending, and its answer came
\* afterwards
C15_Witness ==
    /\ hist.late = 1 /\ hist.crashes = 0
    /\ \E id \in RequestIds :
          /\ requests[id].state = "rejected" /\ ~requests[id].timer
          /\ \E o \in RequestIds \ {id} : o \in client.pendingRequests

\* =====================================================================
\* The status of the AI service (checked under SpecService)
\* =====================================================================
\* C17: AIService.isReady() is true only when the status is "ready" and the
\* client reports its worker ready.
C17_ReadyNeedsWorkerReady ==
    AIService_isReady(service, client)
    => service.status = "ready" /\ isWorkerReady(client)

StatusChange == <<service.status, service'.status>>

\* C18 as stated: every change of the status is not-configured -> ready,
\* anything -> error, or error -> ready; no operation produces another one.
C18_ThreeTransitions ==
    [][service'.status # service.status
       => \/ StatusChange = <<"not-configured", "ready">>
          \/ StatusChange = <<"error", "ready">>
          \/ service'.status = "error"]_vars

\* C18, amended: besides those three, the nuclear reset takes any status to
\* not-configured; ready is set by loadModel and by the end of startAISetup,
\* error by a failed initializeXenova, loadModel or startAISetup.
C18_FourTransitions ==
    [][service'.status # service.status
       => \/ /\ StatusChange \in {<<"not-configured", "ready">>, <<"error", "ready">>}
             /\ service'.by \in {"loadModel", "startAISetup"}
          \/ /\ service'.status = "error"
             /\ service'.by \in {"initializeXenova", "loadModel", "startAISetup.catch"}
          \/ /\ service'.status = "not-configured"
             /\ service'.by = "nuclearReset"
             /\ hist'.nuclear = hist.nuclear + 1
             /\ service'.aiState = "not-configured"]_vars

\* a finished setup was followed by a nuclear reset
C18_Witness ==
    /\ service.status = "not-configured" /\ service.by = "nuclearReset"
    /\ setup.tab.pc = "done"
    /\ hist.nuclear = 1

\* C19: the failure of a step of startAISetup (check, download, initialize,
\* load) sets the status to error with a message and no later step runs; the
\* status is set to ready only after initialize() succeeded and the client
\* reported its worker ready.
C19_SetupStopsAtFailure ==
    [][/\ \A s \in setup'.tab.failed \ setup.tab.failed :
             /\ service'.status = "error"
             /\ service'.message = "Setup failed"
             /\ service'.by = "startAISetup.catch"
             /\ setup'.tab.pc = "failed"
       /\ \A s \in setup'.tab.failed : setup'.tab.ran \cap LaterSteps(s) = {}
       /\ setup.tab.pc = "failed" => setup'.tab = setup.tab
       /\ (service'.by = "loadModel" /\ service'.status = "ready" /\ service' # service)
          => isWorkerReady(client')
       /\ ("mark" \in setup'.tab.ran /\ "mark" \notin setup.tab.ran)
          => /\ {"init", "load"} \subseteq setup.tab.ran
             /\ setup.tab.failed = {}
             /\ service'.status = "ready"]_vars

\* the setup has failed at its initialization step and went no further
C19_Witness ==
    /\ setup.tab.pc = "failed" /\ setup.tab.failed = {"init"}
    /\ setup.tab.ran \cap {"load", "mark"} = {}
    /\ service.status = "error"

\* ---------------------------------------------------------------------
\* SpecSearch: searchByEmbedding on every store of NPaths documents whose
\* records score 0..MaxScore, under every setting of the three collections
\* ---------------------------------------------------------------------
InitSearch ==
    /\ idxState = EmptyStates
    /\ recs = EmptyRecs
    /\ disk = save(EmptyStates, EmptyRecs)
    /\ cancelIndexing = FALSE
    /\ cleanupTimers = 0
    /\ passes = [c \in Slots |-> NoPass]
    /\ calls = 0
    /\ vault \in InitVaults
    /\ enabled \in [TypeSet -> BOOLEAN]
    /\ su = NoSu
    /\ now = 1
    /\ boot = "loaded"
    /\ seen = NoSeen
    /\ note = NoNote
    /\ AIIdle
    /\ \E sc \in [TypeSet -> [SearchPaths -> {NoRecord} \cup Scores]] :
          search = [NoSearch EXCEPT !.scores = sc]
    /\ cosine = NoCosine
    /\ EventsIdle
    /\ loop = NoLoop

NextSearch == Search

SpecSearch == InitSearch /\ [][NextSearch]_vars

\* =====================================================================
\* The merge of the semantic search (checked under SpecSearch)
\* =====================================================================
\* the enabled collections that hold a record of path p
HoldersOf(p) == {c \in TypeSet : enabled[c] /\ search.scores[c][p] # NoRecord}

\* C20: searchByEmbedding returns at most one entry per path, and the entry
\* of a path carries the highest of the scores the path has in the enabled
\* collections, with the source of a collection that gave that score.
C20_MergeKeepsBestPerPath ==
    search.ran
    => /\ \A i, j \in 1..Len(search.result) :
             search.result[i].path = search.result[j].path => i = j
       /\ \A i \in 1..Len(search.result) :
             LET r == search.result[i]
             IN  /\ HoldersOf(r.path) # {}
                 /\ \A c \in HoldersOf(r.path) : search.scores[c][r.path] <= r.score
                 /\ \E c \in HoldersOf(r.path) :
                       search.scores[c][r.path] = r.score /\ SourceOf(c) = r.source

\* a path with a lower score in its titles record than in its content record
\* was returned with the content score and source
C20_Witness ==
    /\ search.ran
    /\ \E i \in 1..Len(search.result) :
          LET r == search.result[i]
          IN  /\ {"titles", "content"} \subseteq HoldersOf(r.path)
              /\ search.scores["titles"][r.path] < search.scores["content"][r.path]
              /\ r.source = "content"
              /\ r.score = search.scores["content"][r.path]

\* the best score of path p in the enabled collections that hold it
BestOf(p) ==
    CHOOSE b \in Scores :
       /\ \E c \in HoldersOf(p) : search.scores[c][p] = b
       /\ \A c \in HoldersOf(p) : search.scores[c][p] <= b

\* the paths a search with the given options may return: held by an enabled
\* collection, not excluded, and not under a positive minScore
Eligible ==
    {p \in SearchPaths :
        /\ HoldersOf(p) # {}
        /\ search.options.excludePath = NoExclude \/ p # search.options.excludePath
        /\ minScoreOf(search.options) > 0 => BestOf(p) >= minScoreOf(search.options)}

ReturnedPaths == {search.result[i].path : i \in 1..Len(search.result)}

\* C21: the result of searchByEmbedding is sorted by descending score, has at
\* most topK entries (all the eligible paths if they are fewer), none for
\* excludePath and none from a disabled collection, and no eligible path that
\* is left out scores strictly higher than a returned one.
C21_TopKInDescendingOrder ==
    search.ran
    => /\ \A i, j \in 1..Len(search.result) :
             i < j => search.result[i].score >= search.result[j].score
       /\ Len(search.result) = Min(topKOf(search.options), Cardinality(Eligible))
       /\ ReturnedPaths \subseteq Eligible
       /\ \A i \in 1..Len(search.result) :
             \E c \in TypeSet : enabled[c] /\ SourceOf(c) = search.result[i].source
       /\ \A p \in Eligible \ ReturnedPaths :
             \A i \in 1..Len(search.result) : BestOf(p) <= search.result[i].score

\* a search with topK 1 returned the better of two eligible paths, the one
\* that comes second in the collections
C21_Witness ==
    /\ search.ran
    /\ search.options.topK = 1 /\ Len(search.result) = 1
    /\ \E p \in Eligible \ ReturnedPaths :
          BestOf(p) < search.result[1].score /\ p < search.result[1].path

\* C22: when a minScore option is given, whether positive, zero or negative,
\* no returned result has a score below it.
C22_NoResultBelowMinScore ==
    (search.ran /\ search.options.minScore # NotGiven)
    => \A i \in 1..Len(search.result) : search.result[i].score >= search.options.minScore

\* ---------------------------------------------------------------------
\* SpecCosine: cosineSimilarity on every pair of vectors of VecLen components
\* ---------------------------------------------------------------------
InitCosine ==
    /\ idxState = EmptyStates
    /\ recs = EmptyRecs
    /\ disk = save(EmptyStates, EmptyRecs)
    /\ cancelIndexing = FALSE
    /\ cleanupTimers = 0
    /\ passes = [c \in Slots |-> NoPass]
    /\ calls = 0
    /\ vault \in InitVaults
    /\ enabled = [t \in TypeSet |-> TRUE]
    /\ su = NoSu
    /\ now = 1
    /\ boot = "loaded"
    /\ seen = NoSeen
    /\ note = NoNote
    /\ AIIdle
    /\ search = NoSearch
    /\ cosine = NoCosine
    /\ EventsIdle
    /\ loop = NoLoop

NextCosine == Cosine

SpecCosine == InitCosine /\ [][NextCosine]_vars

IsZeroVector(v) == \A i \in 1..VecLen : v[i] = 0

\* C23: the similarity computed for two non-zero vectors of the same length
\* lies in [-1, 1], and it is exactly 0 if either vector has zero norm.
C23_CosineWithinBounds ==
    cosine.ran
    => /\ ~aboveOne(cosine.similarity.abs)
       /\ (IsZeroVector(cosine.a) \/ IsZeroVector(cosine.b)) => cosine.similarity.sign = 0

\* =====================================================================
\* The lock on disk (checked under Spec)
\* =====================================================================
\* C30: an accepted indexSpecificType(type) has written {isIndexing: true,
\* progress: 0, total: number of documents, lastHeartbeat: now} to the
\* persisted envelope before the first document of the pass is embedded, and
\* as long as the pass iterates the persisted flag of its collection is true.
C30_LockPersistedBeforeFirstDocument ==
    [][\A c \in Slots :
          /\ (passes[c].pc = "new" /\ passes'[c].pc = "started")
             => LET t == passes'[c].type
                IN  /\ disk'.states[t].isIndexing
                    /\ disk'.states[t].progress = 0
                    /\ disk'.states[t].total = Len(getMarkdownFiles)
                    /\ disk'.states[t].lastHeartbeat = now
                    /\ disk'.states = idxState'
                    /\ recs' = recs
          /\ Iterating(passes'[c]) => disk'.states[passes'[c].type].isIndexing]_vars

\* =====================================================================
\* The startup consistency pass (checked under Spec)
\* =====================================================================
\* C28: when a lock is held or the store is not empty, every call of
\* indexSpecificType that checkStateConsistency makes for an enabled
\* collection in need of a pass (no records, a lock at startup, or fewer
\* records than documents) is executed and not rejected by the lock check,
\* whichever collection held the lock; here with no other caller about.
C28_StartupPassesAreExecuted ==
    [][\A c \in Slots :
          (/\ calls = 0
           /\ su'.pc = "wait" /\ su'.call = c
           /\ passes'[c] # passes[c]
           /\ passes'[c].pc \in {"started", "rejected"})
          => passes'[c].pc = "started"]_vars

\* =====================================================================
\* getStats (checked under Spec)
\* =====================================================================
KeysOf(t) == {p \in Paths : recs[t][p] # 0}
LockedTypes == {t \in TypeSet : idxState[t].isIndexing}

\* C25: in every state getStats() reports the sizes of the three maps, as
\* totalNotes the number of paths in the union of their key sets, and the
\* progress and total of the collection whose isIndexing flag is set, none
\* if no flag is set; after a completed title pass over the N documents, with
\* only titles enabled and every embedding succeeding, it reports N, 0, 0, N.
C25_StatsMatchTheStore ==
    LET stats == getStats(idxState, recs)
    IN  /\ stats.titlesIndexed = Cardinality(KeysOf("titles"))
        /\ stats.headingsIndexed = Cardinality(KeysOf("headings"))
        /\ stats.contentIndexed = Cardinality(KeysOf("content"))
        /\ stats.totalNotes
             = Cardinality(KeysOf("titles") \cup KeysOf("headings") \cup KeysOf("content"))
        /\ stats.isIndexing = (LockedTypes # {})
        /\ LockedTypes = {}
           => /\ stats.currentIndexingType = "none"
              /\ stats.currentIndexingProgress = 0 /\ stats.totalIndexingItems = 0
        /\ \A t \in LockedTypes :
              LockedTypes = {t}
              => /\ stats.currentIndexingType = t
                 /\ stats.currentIndexingProgress = idxState[t].progress
                 /\ stats.totalIndexingItems = idxState[t].total
        /\ \A c \in Slots :
              (/\ passes[c].pc = "done" /\ passes[c].type = "titles"
               /\ ~passes[c].cancelled /\ passes[c].failed = {}
               /\ enabled = [t \in TypeSet |-> t = "titles"]
               /\ calls = 0)
              => /\ stats.titlesIndexed = NFiles /\ stats.totalNotes = NFiles
                 /\ stats.headingsIndexed = 0 /\ stats.contentIndexed = 0

\* a title pass over all the documents has completed with only titles enabled
C25_Witness ==
    \E c \in Slots :
        /\ passes[c].pc = "done" /\ passes[c].type = "titles"
        /\ ~passes[c].cancelled /\ passes[c].failed = {}
        /\ enabled = [t \in TypeSet |-> t = "titles"]
        /\ calls = 0
        /\ getStats(idxState, recs).titlesIndexed = NFiles

\* ---------------------------------------------------------------------
\* SpecReset: the reset-database command among the calls of indexSpecificType
\* ---------------------------------------------------------------------
NextReset ==
    /\ \/ \E t \in TypeSet : UserCall(t) /\ UNCHANGED noteVars
       \/ \E c \in Slots : AfterSave(c) /\ UNCHANGED noteVars
       \/ \E c \in Slots : AfterDelay(c) /\ UNCHANGED noteVars
       \/ \E c \in Slots : DocStart(c) /\ UNCHANGED noteVars
       \/ \E c \in Slots : EmbedDone(c) /\ UNCHANGED noteVars
       \/ \E c \in Slots : CompleteDone(c) /\ UNCHANGED noteVars
       \/ \E c \in Slots : Return(c) /\ UNCHANGED noteVars
       \/ ResetCall
       \/ ResetReturn
    /\ UNCHANGED <<aiVars, searchVars, eventVars, loop>>

SpecReset == Init /\ [][NextReset]_vars

\* C24: after reset() returns, the envelope in memory and the persisted
\* envelope are both the empty envelope: no record in any collection, the
\* three isIndexing flags false.
C24_ResetLeavesBothEmpty ==
    [][(boot = "resetting" /\ boot' = "reset")
       => /\ recs' = EmptyRecs
          /\ \A t \in TypeSet : ~idxState'[t].isIndexing
          /\ disk'.recs = EmptyRecs
          /\ \A t \in TypeSet : ~disk'.states[t].isIndexing
          /\ disk'.recs = recs' /\ disk'.states = idxState']_vars

\* ---------------------------------------------------------------------
\* SpecDelete: 'delete' events among the calls of indexSpecificType; a pass
\* has the documents the vault listed when it began, so none begins here
\* once a document is deleted
\* ---------------------------------------------------------------------
NoneDeleted == \A p \in Paths : removals[p] = "none"

NextDelete ==
    /\ \/ \E t \in TypeSet : NoneDeleted /\ UserCall(t) /\ UNCHANGED <<noteVars, eventVars, loop>>
       \/ \E c \in Slots : AfterSave(c) /\ UNCHANGED <<noteVars, eventVars, loop>>
       \/ \E c \in Slots : AfterDelay(c) /\ UNCHANGED <<noteVars, eventVars, loop>>
       \/ \E c \in Slots : DocStart(c) /\ UNCHANGED <<noteVars, eventVars, loop>>
       \/ \E c \in Slots : EmbedDone(c) /\ UNCHANGED <<noteVars, eventVars, loop>>
       \/ \E c \in Slots : CompleteDone(c) /\ UNCHANGED <<noteVars, eventVars, loop>>
       \/ \E c \in Slots : Return(c) /\ UNCHANGED <<noteVars, eventVars, loop>>
       \/ \E p \in Paths : DeleteCall(p)
       \/ \E p \in Paths : DeleteReturn(p)
    /\ UNCHANGED <<aiVars, searchVars, loop>>

SpecDelete == Init /\ [][NextDelete]_vars

\* C27: when the delete handler of path p completes, none of the three
\* collections has a record of p, in memory or in the persisted envelope.
C27_DeletedPathHasNoRecord ==
    [][\A p \in Paths :
         (removals[p] # "done" /\ removals'[p] = "done")
         => \A t \in TypeSet : recs'[t][p] = 0 /\ disk'.recs[t][p] = 0]_vars

\* ---------------------------------------------------------------------
\* SpecDebounce: 'modify' events of two documents and their timers
\* ---------------------------------------------------------------------
NextDebounce ==
    /\ \/ \E f \in NotePaths : Notify(f)
       \/ \E id \in AutoIds : AutoFire(id)
       \/ \E id \in AutoIds : AutoDone(id)
       \/ AutoTick
    /\ UNCHANGED <<aiVars, searchVars, loop>>

SpecDebounce == InitNote /\ [][NextDebounce]_vars

PendingFor(f) == {id \in AutoIds : autoTimers[id].state = "pending" /\ autoTimers[id].path = f}
PendingAfter(f) == {id \in AutoIds : autoTimers'[id].state = "pending" /\ autoTimers'[id].path = f}
\* the time of the last 'modify' event of f: each event sets a timer
LastNotified(f) ==
    LET at == {autoTimers[id].due - DebounceMs : id \in {j \in AutoIds : autoTimers[j].path = f}}
    IN  CHOOSE a \in at : \A b \in at : b <= a

\* C26: a path has at most one pending timer; an event of the path cancels
\* the timer that was pending; and when a timer of the path fires, to call
\* updateNoteIfNeeded, the last event of the path is 5 s old.
C26_OneTimerPerPath ==
    [][\A f \in NotePaths :
         /\ Cardinality(PendingAfter(f)) <= 1
         /\ \A id \in PendingFor(f) :
               (autoUpdateTimeout'[f] # autoUpdateTimeout[f] /\ autoUpdateTimeout'[f] # 0)
               => autoTimers'[id].state = "cleared"
         /\ \A id \in PendingFor(f) :
               autoTimers'[id].state \in {"running", "done"}
               => now = LastNotified(f) + DebounceMs]_vars

\* ---------------------------------------------------------------------
\* SpecLoop: one pass of each collection over 0..MaxLoopFiles documents
\* ---------------------------------------------------------------------
NextLoop == LoopStart \/ LoopChunk \/ LoopEnd

SpecLoop == Init /\ [][NextLoop]_vars

\* C31: at no point of a pass have more than save-every documents of its
\* collection been processed since the envelope was last persisted, or since
\* the last progress notification of the periodic save.
C31_PersistedEverySaveEvery ==
    loop.pc = "chunks"
    => /\ loop.indexed - loop.saved <= saveEvery(loop.type)
       /\ loop.indexed - loop.notified <= saveEvery(loop.type)

\* =====================================================================
\* The progress of a pass (checked under Spec)
\* =====================================================================
\* a pass finishes its last chunk
LastChunkDone(c) ==
    /\ passes[c].pc \in {"doc", "embed"}
    /\ passes'[c].pc \in {"chunkSaved", "completing"}
    /\ passes'[c].i >= Len(passes'[c].files)

\* C32: while the isIndexing flag of a collection is true, 0 <= progress <=
\* total; from one state to the next progress does not decrease and grows by
\* at most the chunk size of the collection, with lastHeartbeat set to the
\* time of the change; and when a pass has finished its last chunk progress
\* equals total.
C32_ProgressWithinTotal ==
    [][\A t \in TypeSet :
         /\ idxState'[t].isIndexing
            => (0 <= idxState'[t].progress /\ idxState'[t].progress <= idxState'[t].total)
         /\ (idxState[t].isIndexing /\ idxState'[t].isIndexing)
            => /\ idxState'[t].progress >= idxState[t].progress
               /\ idxState'[t].progress - idxState[t].progress <= chunkSize(t)
               /\ idxState'[t].progress # idxState[t].progress
                  => idxState'[t].lastHeartbeat = now'
         /\ \A c \in Slots :
               (LastChunkDone(c) /\ passes[c].type = t /\ idxState'[t].isIndexing)
               => idxState'[t].progress = idxState'[t].total]_vars

\* =====================================================================
\* The retry of the setup (checked under SpecService)
\* =====================================================================
\* the setup of the settings tab comes to its end
SetupEnds == setup.tab.pc \notin {"failed", "done"} /\ setup'.tab.pc \in {"failed", "done"}

\* C34: a setup sequence started in status error that has reached its
\* initialization step with the model files on disk, the worker not crashed,
\* its pipeline not failed and no other initialize() under way, ends in
\* status ready.
C34_RetryFromErrorEndsReady ==
    [][(/\ SetupEnds
        /\ setup.tab.from = "error"
        /\ \A c \in Callers \ {"tab"} : inits[c] = "idle"
        /\ "init" \in setup'.tab.ran
        /\ service'.modelFiles
        /\ hist'.crashes = 0
        /\ unit'.phase # "failed")
       => (setup'.tab.pc = "done" /\ service'.status = "ready")]_vars

\* =====================================================================
\* Termination of the setup (checked under SpecServiceFair)
\* =====================================================================
\* SpecService with what the runtime guarantees: a file read that was started
\* ends, the worker ends the load of its pipeline one way or the other, a
\* timer that is due runs (the poll of waitForReady, the restart), and the
\* awaited steps of startAISetup return. Crashes, commands and the clock are
\* not forced.
SpecServiceFair ==
    /\ SpecService
    /\ WF_vars(\E c \in Callers : InitFiles(c))
    /\ WF_vars(UnitLoaded)
    /\ WF_vars(\E c \in Callers : InitPoll(c))
    /\ WF_vars(RestartFire)
    /\ WF_vars(TabCheck)
    /\ WF_vars(TabDownload)
    /\ WF_vars(TabMark)

\* C33: every call of initialize() returns: a call that is past its first
\* suspension (reading the model files, or polling for readiness) is
\* eventually over.
C33_InitializeReturns ==
    \A c \in Callers : (inits[c] # "idle") ~> (inits[c] = "idle")

\* =====================================================================
\* The pending map (checked under SpecPending)
\* =====================================================================
\* SpecPending: the requests of SpecRequests with one crash, the manual
\* reset and the cleanup of the client
NextPending ==
    \/ AutoLoad
    \/ \E c \in Callers : InitFiles(c)
    \/ UnitLoaded
    \/ \E c \in Callers : InitPoll(c)
    \/ (Crash /\ hist.crashes < PendingCrashes)
    \/ RestartFire
    \/ ForceReset
    \/ WorkerCleanup
    \/ \E k \in {"single", "batch"} : Request(k)
    \/ \E id \in RequestIds : Respond(id)
    \/ \E id \in RequestIds : Timeout(id)
    \/ (Tick /\ now < StartTime + RequestsElapsed)

SpecPending == InitRequests /\ [][NextPending]_vars

Settled(r) == r.state \in {"resolved", "rejected"}

\* C36: an entry leaves the pending map only with its caller resolved or
\* rejected, and a request that is settled stays as it was settled.
C36_PendingEntrySettles ==
    [][\A id \in RequestIds :
         /\ (id \in client.pendingRequests /\ id \notin client'.pendingRequests)
            => Settled(requests'[id])
         /\ Settled(requests[id]) => requests'[id].state = requests[id].state]_vars

\* C37: when the client is not ready (no worker, or isReady false) the
\* pending map is empty.
C37_NotReadyMeansNoPending ==
    ~(client.worker # 0 /\ client.isReady) => client.pendingRequests = {}

\* the client has been reset with a request pending: not ready, the map empty
C37_Witness ==
    /\ hist.resets = 1
    /\ ~client.isReady
    /\ client.pendingRequests = {}
    /\ \E id \in RequestIds : requests[id].state = "pending"

\* ---------------------------------------------------------------------
\* SpecDeleteDebounce: 'modify' events, their timers, and the 'delete' event
\* of one document, which has no later event here (no create, no rename)
\* ---------------------------------------------------------------------
NextDeleteDebounce ==
    /\ \/ \E f \in NotePaths : removals[f] = "none" /\ Notify(f)
       \/ \E id \in AutoIds : AutoFire(id)
       \/ \E id \in AutoIds : AutoDone(id)
       \/ AutoTick
       \/ \E p \in NotePaths : NoneDeleted /\ DeleteCall(p)
       \/ \E p \in NotePaths : DeleteReturn(p)
    /\ UNCHANGED <<aiVars, searchVars, loop>>

\* the title collection is enabled and the store has records of document 1
InitDeleteDebounce ==
    /\ InitNote
    /\ enabled["titles"]
    /\ \E t \in TypeSet : recs[t][1] # 0

SpecDeleteDebounce == InitDeleteDebounce /\ [][NextDeleteDebounce]_vars

\* C38: once the delete handler of path p has completed, and with no later
\* create or rename of p, no collection has a record of p.
C38_DeletedPathStaysAbsent ==
    \A p \in NotePaths :
        removals[p] = "done" => \A t \in TypeSet : recs[t][p] = 0

\* C39: with no pass in flight, the collection of a pass that has ended, by
\* normal completion, cancellation or a thrown error, is not indexing, in
\* memory and in the persisted envelope.
C39_EndedPassLeavesNoLock ==
    \A c \in Slots :
        (passes[c].pc \in {"done", "thrown"} /\ \A d \in Slots : ~InFlight(passes[d]))
        => /\ ~idxState[passes[c].type].isIndexing
           /\ ~disk.states[passes[c].type].isIndexing

\* C40: when the startup consistency pass finishes, with no other pass in
\* flight, no collection is indexing, in memory or in the persisted envelope.
C40_StartupLeavesNoLock ==
    [][(su.pc # "done" /\ su'.pc = "done" /\ \A c \in Slots : ~InFlight(passes'[c]))
       => \A t \in TypeSet : ~idxState'[t].isIndexing /\ ~disk'.states[t].isIndexing]_vars

====
